---- MODULE Spec2Model ----
(***************************************************************************)
(* Model of the Toadoo backend's authentication core: the token codec      *)
(* (app/services/auth.py), the token store (app/repositories/tokens.py),   *)
(* the user repository (app/repositories/users.py), the authorization      *)
(* guard (app/dependencies/auth.py) and the request handlers of            *)
(* app/routers/auth.py, app/routers/users.py and app/routers/admin.py.     *)
(*                                                                         *)
(* Time is counted in ticks, TicksPerSecond ticks to the second, so that   *)
(* the truncation of a JWT "exp" claim to whole seconds is visible next to *)
(* the untruncated expires_at column of the token tables.  The token       *)
(* lifetimes of app/config.py are scaled down to a few ticks.              *)
(*                                                                         *)
(* The codec is modelled by the contract verify_token documents: a token   *)
(* decodes iff its signature verifies, it is not expired and its type tag  *)
(* is the expected one; the subject claim is returned as it was issued.    *)
(***************************************************************************)
EXTENDS Integers, FiniteSets, Sequences, TLC

\* ------------------------------------------------------------------ bounds
MaxUsers == 2
MaxTime == 2
MaxRefresh == 3
MaxEmailTokens == 2
MaxResetTokens == 1
MaxTodos == 2
MaxHarvests == 2
TicksPerSecond == 2
\* scaled stand-ins for the lifetimes of app/config.py, in ticks
AccessLifetime == 1
RefreshLifetime == 1
EmailVerificationLifetime == 2
PasswordResetLifetime == 1

Emails == {"a@x", "b@x"}
Passwords == {"Pw1", "Pw2"}

UserIds == 1..MaxUsers

\* ------------------------------------------------------ credential hasher
\* hash_password / verify_password: the digest is not the password, and it
\* verifies exactly the password it was made from (distinct passwords have
\* distinct digests).
hash_password(password) == <<"bcrypt", password>>

verify_password(plain_password, hashed_password) ==
    hashed_password = hash_password(plain_password)

\* ------------------------------------------------------------ token codec
\* jwt.encode turns a datetime claim into whole seconds.
Timegm(t) == t - (t % TicksPerSecond)

create_access_token(sub, t) ==
    [type |-> "access", sub |-> sub, exp |-> Timegm(t + AccessLifetime),
     jti |-> 0, sig |-> "key"]

create_refresh_token(sub, t, jti) ==
    [type |-> "refresh", sub |-> sub, exp |-> Timegm(t + RefreshLifetime),
     jti |-> jti, sig |-> "key"]

\* jwt.decode: the signature verifies under SECRET_KEY and the exp claim is
\* not earlier than the current time in whole seconds.
jwt_decode(token, t) ==
    /\ token.sig = "key"
    /\ ~(token.exp < Timegm(t))

\* verify_token without the comparison of the type claim.
verify_token_any_type(token, token_type, t) == jwt_decode(token, t)

verify_token(token, token_type, t) ==
    /\ jwt_decode(token, t)
    /\ token.type = token_type

\* A token signed with another key: what a client can make up by itself.
ForgedToken ==
    [type |-> "refresh", sub |-> 1, exp |-> MaxTime + RefreshLifetime + TicksPerSecond,
     jti |-> 0, sig |-> "other"]

NoToken == [type |-> "none", sub |-> 0, exp |-> 0, jti |-> 0, sig |-> "none"]

\* ------------------------------------------------------------------ state
VARIABLES
    now,             \* datetime.utcnow(), in ticks
    users,           \* table users
    refresh_tokens,  \* table refresh_tokens
    email_tokens,    \* table email_verification_tokens
    reset_tokens,    \* table password_reset_tokens
    todos,           \* table todos
    harvest_history, \* table harvest_history
    next_jti,        \* the next unused random jti
    next_email,      \* the next unused random verification token
    next_reset,      \* the next unused random reset token
    issued,          \* history: the Token responses handed to clients
    rotated,         \* history: the refresh tokens a refresh has succeeded for
    ended,           \* history: the refresh tokens whose session was ended
    inflight         \* the requests being served one store access at a time

vars == <<now, users, refresh_tokens, email_tokens, reset_tokens, todos,
          harvest_history, next_jti, next_email, next_reset, issued, rotated, ended, inflight>>

db == <<users, refresh_tokens, email_tokens, reset_tokens, todos, harvest_history>>
counters == <<next_jti, next_email, next_reset>>
history == <<issued, rotated, ended>>

\* A request served step by step: the endpoint, the handler's position, the
\* token in the request body and the status answered (0: none yet).
MaxRequests == 2
RequestIds == 1..MaxRequests
Request(op, pc, token, status) ==
    [op |-> op, pc |-> pc, token |-> token, status |-> status]
NoRequest == Request("none", "idle", NoToken, 0)

Init ==
    /\ now = 0
    /\ users = {}
    /\ refresh_tokens = {}
    /\ email_tokens = {}
    /\ reset_tokens = {}
    /\ todos = {}
    /\ harvest_history = {}
    /\ next_jti = 1
    /\ next_email = 1
    /\ next_reset = 1
    /\ issued = {}
    /\ rotated = {}
    /\ ended = {}
    /\ inflight = [r \in RequestIds |-> NoRequest]

\* ------------------------------------------------------- user repository
get_user_by_id(user_id) == {u \in users : u.id = user_id}
get_user_by_email(email) == {u \in users : u.email = email}
get_user_by_username(username) == {u \in users : u.username = username}
get_user_by_username_or_email(identifier) ==
    {u \in users : u.username = identifier \/ u.email = identifier}

MaxOf(S) == CHOOSE m \in S : \A x \in S : x <= m

\* The integer primary key of a new row: one more than the largest id in
\* the table (models.py: Column(Integer, primary_key=True)).
NextUserId == IF users = {} THEN 1 ELSE MaxOf({u.id : u \in users}) + 1

create_user(email, username, password) ==
    [id |-> NextUserId, email |-> email, username |-> username,
     hashed_password |-> hash_password(password),
     role |-> "user", is_active |-> TRUE, is_verified |-> FALSE,
     total_completed_count |-> 0]

\* update_user_password that does not find the user.
update_user_password_none(rows, user_id, new_password) == rows

update_user_password(rows, user_id, new_password) ==
    {IF u.id = user_id
        THEN [u EXCEPT !.hashed_password = hash_password(new_password)]
        ELSE u : u \in rows}

update_user_role(rows, user_id, role) ==
    {IF u.id = user_id THEN [u EXCEPT !.role = role] ELSE u : u \in rows}

update_user_status(rows, user_id, is_active) ==
    {IF u.id = user_id THEN [u EXCEPT !.is_active = is_active] ELSE u : u \in rows}

verify_user_email(rows, user_id) ==
    {IF u.id = user_id THEN [u EXCEPT !.is_verified = TRUE] ELSE u : u \in rows}

\* delete_user without the cascade of the relationships of User.
delete_user_users_only(user_id) ==
    /\ users' = {u \in users : u.id # user_id}
    /\ UNCHANGED <<refresh_tokens, email_tokens, reset_tokens, todos,
                   harvest_history>>

\* db.delete(db_user): the relationships of User cascade the delete to the
\* user's rows in every token table, to the user's todos and to the user's
\* harvest history.
delete_user(user_id) ==
    /\ users' = {u \in users : u.id # user_id}
    /\ refresh_tokens' = {r \in refresh_tokens : r.user_id # user_id}
    /\ email_tokens' = {r \in email_tokens : r.user_id # user_id}
    /\ reset_tokens' = {r \in reset_tokens : r.user_id # user_id}
    /\ todos' = {t \in todos : t.owner_id # user_id}
    /\ harvest_history' = {h \in harvest_history : h.user_id # user_id}

\* ------------------------------------------------------------ token store
RefreshRow(token, user_id, t) ==
    [token |-> token, user_id |-> user_id,
     expires_at |-> t + RefreshLifetime, revoked |-> FALSE]

\* get_refresh_token without its filter on the revoked flag.
get_refresh_token_any(token) == {r \in refresh_tokens : r.token = token}

get_refresh_token(token) ==
    {r \in refresh_tokens : r.token = token /\ r.revoked = FALSE}

\* revoke_refresh_token that finds no row to flag.
revoke_refresh_token_none(rows, token) == rows

revoke_refresh_token(rows, token) ==
    {IF r.token = token THEN [r EXCEPT !.revoked = TRUE] ELSE r : r \in rows}

\* revoke_all_user_tokens that finds no row to flag.
revoke_all_user_tokens_none(rows, user_id) == rows

revoke_all_user_tokens(rows, user_id) ==
    {IF r.user_id = user_id /\ r.revoked = FALSE
        THEN [r EXCEPT !.revoked = TRUE] ELSE r : r \in rows}

\* cleanup_expired_tokens with its filter inverted: it deletes the live rows.
cleanup_expired_tokens_live(rows, t) == {r \in rows : r.expires_at < t}

\* The sweep with expires_at <= now in place of expires_at < now.
cleanup_expired_tokens_inclusive(rows, t) == {r \in rows : ~(r.expires_at <= t)}

cleanup_expired_tokens(rows, t) == {r \in rows : ~(r.expires_at < t)}

\* The value cleanup_expired_tokens returns: the row counts of its three
\* DELETE statements added up.
cleanup_count(t) ==
    Cardinality({r \in refresh_tokens : r.expires_at < t})
    + Cardinality({r \in email_tokens : r.expires_at < t})
    + Cardinality({r \in reset_tokens : r.expires_at < t})

EmailRow(token, user_id, t) ==
    [token |-> token, user_id |-> user_id,
     expires_at |-> t + EmailVerificationLifetime, used |-> FALSE]

get_email_verification_token(token, t) ==
    {r \in email_tokens : r.token = token /\ r.used = FALSE /\ r.expires_at > t}

\* mark_email_token_used that finds no row to flag.
mark_email_token_used_none(rows, token) == rows

mark_email_token_used(rows, token) ==
    {IF r.token = token THEN [r EXCEPT !.used = TRUE] ELSE r : r \in rows}

ResetRow(token, user_id, t) ==
    [token |-> token, user_id |-> user_id,
     expires_at |-> t + PasswordResetLifetime, used |-> FALSE]

get_password_reset_token(token, t) ==
    {r \in reset_tokens : r.token = token /\ r.used = FALSE /\ r.expires_at > t}

\* mark_reset_token_used that finds no row to flag.
mark_reset_token_used_none(rows, token) == rows

mark_reset_token_used(rows, token) ==
    {IF r.token = token THEN [r EXCEPT !.used = TRUE] ELSE r : r \in rows}

\* ---------------------------------------------------- authorization guard
\* get_current_user: the user a bearer credential resolves to, if any.
get_current_user(credentials) ==
    IF verify_token(credentials, "access", now)
    THEN get_user_by_id(credentials.sub)
    ELSE {}

\* The status the guard get_current_active_user ends a request with, 200
\* when it lets the request through to the handler.  The variant below does
\* not look at the active flag.
ActiveGuard_no_active_check(credentials) ==
    IF get_current_user(credentials) = {} THEN 401
    ELSE 200

ActiveGuard(credentials) ==
    IF get_current_user(credentials) = {} THEN 401
    ELSE IF \E u \in get_current_user(credentials) : ~u.is_active THEN 403
    ELSE 200

\* get_current_verified_user, on top of get_current_active_user.
VerifiedGuard(credentials) ==
    IF ActiveGuard(credentials) # 200 THEN ActiveGuard(credentials)
    ELSE IF \E u \in get_current_user(credentials) : ~u.is_verified THEN 403
    ELSE 200

\* require_admin without its test of the role.
AdminGuard_any_role(credentials) == ActiveGuard(credentials)

\* require_admin, on top of get_current_active_user.
AdminGuard(credentials) ==
    IF ActiveGuard(credentials) # 200 THEN ActiveGuard(credentials)
    ELSE IF \E u \in get_current_user(credentials) : u.role # "admin" THEN 403
    ELSE 200

CurrentUser(credentials) == CHOOSE u \in get_current_user(credentials) : TRUE

\* ------------------------------------------------- what clients can send
\* A Token response as the history keeps it: the endpoint that made it, the
\* two tokens, and the time the refresh token's row expires at.
Grant(by, access_token, refresh_token) ==
    [by |-> by, access_token |-> access_token, refresh_token |-> refresh_token,
     expires_at |-> now + RefreshLifetime]

AccessTokens == {g.access_token : g \in issued}
RefreshTokens == {g.refresh_token : g \in issued}
\* bearer credentials: the access tokens issued so far, and a forged one
Bearers == AccessTokens \cup {ForgedToken}
\* refresh tokens in a request body: the ones issued so far, and a forged one
PresentedTokens == RefreshTokens \cup {ForgedToken}
\* whatever token a client holds, sent as the bearer credential
Credentials == Bearers \cup RefreshTokens
\* the history entries that end one session, and all the sessions of a user
EndOne(token) ==
    {t \in RefreshTokens : t = token}

EndAll(user_id) ==
    {t \in RefreshTokens : t.sub = user_id}

\* ---------------------------------------------------------------- actions
\* A request that ends in an HTTPException has written nothing.
Rejected == UNCHANGED vars

\* POST /auth/register.  The variant below leaves out the look-up of the
\* username.
RegisterStatus_email_only(email, username) ==
    IF get_user_by_email(email) # {} THEN 400
    ELSE 201

RegisterStatus(email, username) ==
    IF get_user_by_email(email) # {} THEN 400
    ELSE IF get_user_by_username(username) # {} THEN 400
    ELSE 201

Register(email, username, password) ==
    /\ NextUserId <= MaxUsers
    /\ next_email <= MaxEmailTokens
    /\ IF RegisterStatus(email, username) # 201
       THEN Rejected
       ELSE /\ users' = users \cup {create_user(email, username, password)}
            /\ email_tokens' = email_tokens \cup {EmailRow(next_email, NextUserId, now)}
            /\ next_email' = next_email + 1
            /\ UNCHANGED <<now, todos, harvest_history, refresh_tokens, reset_tokens, next_jti, next_reset,
                           history, inflight>>

\* POST /auth/login: the status for the user the identifier resolved to
\* (the empty set when it resolved to none). The variant below never looks at
\* the active flag.
LoginStatus_no_active_check(found, password) ==
    IF found = {} THEN 401
    ELSE IF \E u \in found : ~verify_password(password, u.hashed_password) THEN 401
    ELSE 200

LoginStatus(found, password) ==
    IF found = {} THEN 401
    ELSE IF \E u \in found : ~verify_password(password, u.hashed_password) THEN 401
    ELSE IF \E u \in found : ~u.is_active THEN 403
    ELSE 200

\* The response of login as the client sees it: status, detail and headers.
\* The variant below tests the active flag before the password.
LoginResponse_active_first(found, password) ==
    IF found = {}
    THEN [status |-> 401, detail |-> "Incorrect username or password",
          headers |-> {<<"WWW-Authenticate", "Bearer">>}]
    ELSE IF \E u \in found : ~u.is_active
    THEN [status |-> 403, detail |-> "User account is inactive", headers |-> {}]
    ELSE IF \E u \in found : ~verify_password(password, u.hashed_password)
    THEN [status |-> 401, detail |-> "Incorrect username or password",
          headers |-> {<<"WWW-Authenticate", "Bearer">>}]
    ELSE [status |-> 200, detail |-> "bearer", headers |-> {}]

LoginResponse(found, password) ==
    IF found = {}
    THEN [status |-> 401, detail |-> "Incorrect username or password",
          headers |-> {<<"WWW-Authenticate", "Bearer">>}]
    ELSE IF \E u \in found : ~verify_password(password, u.hashed_password)
    THEN [status |-> 401, detail |-> "Incorrect username or password",
          headers |-> {<<"WWW-Authenticate", "Bearer">>}]
    ELSE IF \E u \in found : ~u.is_active
    THEN [status |-> 403, detail |-> "User account is inactive", headers |-> {}]
    ELSE [status |-> 200, detail |-> "bearer", headers |-> {}]

\* What login writes when it rejects the credentials of a user it found.
\* The variant below locks the account: it clears the active flag.
LoginFailed_lockout(user) ==
    /\ users' = {IF u.id = user.id THEN [u EXCEPT !.is_active = FALSE] ELSE u
                 : u \in users}
    /\ UNCHANGED <<now, todos, harvest_history, refresh_tokens, email_tokens, reset_tokens, next_jti,
                   next_email, next_reset, issued, rotated, ended, inflight>>

LoginFailed(user) == Rejected

Login(identifier, password) ==
    /\ next_jti <= MaxRefresh
    /\ \/ /\ get_user_by_username_or_email(identifier) = {}
          /\ Rejected
       \/ \E user \in get_user_by_username_or_email(identifier) :
             IF LoginStatus({user}, password) # 200
             THEN LoginFailed(user)
             ELSE LET access_token == create_access_token(user.id, now)
                      refresh_token == create_refresh_token(user.id, now, next_jti)
                  IN /\ refresh_tokens' = refresh_tokens \cup
                                          {RefreshRow(refresh_token, user.id, now)}
                     /\ next_jti' = next_jti + 1
                     /\ issued' = issued \cup
                            {Grant("login", access_token, refresh_token)}
                     /\ UNCHANGED <<now, todos, harvest_history, users, email_tokens, reset_tokens,
                                    next_email, next_reset, rotated, ended, inflight>>

\* RefreshStatus without the decoding of the presented token.
RefreshStatus_row_only(token) ==
    IF get_refresh_token(token) = {} THEN 401
    ELSE IF get_user_by_id(token.sub) = {} THEN 401
    ELSE IF \E u \in get_user_by_id(token.sub) : ~u.is_active THEN 401
    ELSE 200

\* POST /auth/refresh: the status a presented token is answered with.
RefreshStatus(token) ==
    IF get_refresh_token(token) = {} THEN 401
    ELSE IF ~verify_token(token, "refresh", now) THEN 401
    ELSE IF get_user_by_id(token.sub) = {} THEN 401
    ELSE IF \E u \in get_user_by_id(token.sub) : ~u.is_active THEN 401
    ELSE 200

Refresh(token) ==
    /\ next_jti <= MaxRefresh
    /\ IF RefreshStatus(token) # 200
       THEN Rejected
       ELSE LET new_access_token == create_access_token(token.sub, now)
                new_refresh_token == create_refresh_token(token.sub, now, next_jti)
            IN /\ refresh_tokens' =
                      revoke_refresh_token(refresh_tokens, token) \cup
                      {RefreshRow(new_refresh_token, token.sub, now)}
               /\ next_jti' = next_jti + 1
               /\ issued' = issued \cup
                      {Grant("refresh", new_access_token, new_refresh_token)}
               /\ rotated' = rotated \cup {token}
               /\ UNCHANGED <<now, todos, harvest_history, users, email_tokens, reset_tokens,
                              next_email, next_reset, ended, inflight>>

\* POST /auth/logout
LogoutStatus(credentials, token) ==
    IF ActiveGuard(credentials) # 200 THEN ActiveGuard(credentials) ELSE 204

Logout(credentials, token) ==
    IF LogoutStatus(credentials, token) # 204
    THEN Rejected
    ELSE /\ refresh_tokens' = revoke_refresh_token(refresh_tokens, token)
         /\ ended' = ended \cup EndOne(token)
         /\ UNCHANGED <<now, todos, harvest_history, users, email_tokens, reset_tokens, counters,
                        issued, rotated, inflight>>

\* POST /auth/verify-email
VerifyEmailStatus(token) ==
    IF get_email_verification_token(token, now) = {} THEN 400
    ELSE IF \E r \in get_email_verification_token(token, now) :
                get_user_by_id(r.user_id) = {} THEN 404
    ELSE 200

VerifyEmail(token) ==
    IF VerifyEmailStatus(token) # 200
    THEN Rejected
    ELSE \E db_token \in get_email_verification_token(token, now) :
         /\ users' = verify_user_email(users, db_token.user_id)
         /\ email_tokens' = mark_email_token_used(email_tokens, token)
         /\ UNCHANGED <<now, todos, harvest_history, refresh_tokens, reset_tokens, counters, history, inflight>>

\* POST /auth/resend-verification
ResendVerificationStatus(credentials) ==
    IF get_current_user(credentials) = {} THEN 401
    ELSE IF CurrentUser(credentials).is_verified THEN 400
    ELSE 200

ResendVerification(credentials) ==
    /\ next_email <= MaxEmailTokens
    /\ IF ResendVerificationStatus(credentials) # 200
       THEN Rejected
       ELSE /\ email_tokens' = email_tokens \cup
                               {EmailRow(next_email, credentials.sub, now)}
            /\ next_email' = next_email + 1
            /\ UNCHANGED <<now, todos, harvest_history, users, refresh_tokens, reset_tokens, next_jti,
                           next_reset, history, inflight>>

\* The response of forgot-password as the client sees it. The variant below
\* answers 404 for an email that belongs to nobody.
ForgotPasswordResponse_reveals(found) ==
    IF found = {}
    THEN [status |-> 404, message |-> "User not found"]
    ELSE [status |-> 200,
          message |-> "If email exists, password reset link has been sent"]

ForgotPasswordResponse(found) ==
    IF found = {}
    THEN [status |-> 200,
          message |-> "If email exists, password reset link has been sent"]
    ELSE [status |-> 200,
          message |-> "If email exists, password reset link has been sent"]

\* POST /auth/forgot-password: 200 with the same message either way.
ForgotPassword(email) ==
    /\ next_reset <= MaxResetTokens
    /\ IF get_user_by_email(email) = {}
       THEN UNCHANGED vars
       ELSE \E user \in get_user_by_email(email) :
            /\ reset_tokens' = reset_tokens \cup {ResetRow(next_reset, user.id, now)}
            /\ next_reset' = next_reset + 1
            /\ UNCHANGED <<now, todos, harvest_history, users, refresh_tokens, email_tokens, next_jti,
                           next_email, history, inflight>>

\* POST /auth/reset-password
ResetPasswordStatus(token) ==
    IF get_password_reset_token(token, now) = {} THEN 400
    ELSE IF \E r \in get_password_reset_token(token, now) :
                get_user_by_id(r.user_id) = {} THEN 404
    ELSE 200

ResetPassword(token, new_password) ==
    IF ResetPasswordStatus(token) # 200
    THEN Rejected
    ELSE \E db_token \in get_password_reset_token(token, now) :
         /\ users' = update_user_password(users, db_token.user_id, new_password)
         /\ reset_tokens' = mark_reset_token_used(reset_tokens, token)
         /\ refresh_tokens' = revoke_all_user_tokens(refresh_tokens, db_token.user_id)
         /\ ended' = ended \cup EndAll(db_token.user_id)
         /\ UNCHANGED <<now, todos, harvest_history, email_tokens, counters, issued, rotated, inflight>>

\* POST /users/me/change-password
ChangePasswordStatus(credentials, old_password) ==
    IF ActiveGuard(credentials) # 200 THEN ActiveGuard(credentials)
    ELSE IF ~verify_password(old_password, CurrentUser(credentials).hashed_password)
    THEN 400
    ELSE 200

ChangePassword(credentials, old_password, new_password) ==
    IF ChangePasswordStatus(credentials, old_password) # 200
    THEN Rejected
    ELSE /\ users' = update_user_password(users, credentials.sub, new_password)
         /\ refresh_tokens' = revoke_all_user_tokens(refresh_tokens, credentials.sub)
         /\ ended' = ended \cup EndAll(credentials.sub)
         /\ UNCHANGED <<now, todos, harvest_history, email_tokens, reset_tokens, counters, issued, rotated, inflight>>

\* DELETE /users/me
DeleteMyAccount(credentials) ==
    IF ActiveGuard(credentials) # 200
    THEN Rejected
    ELSE /\ delete_user(credentials.sub)
         /\ ended' = ended \cup EndAll(credentials.sub)
         /\ UNCHANGED <<now, counters, issued, rotated, inflight>>

\* A field of UserUpdate or TodoUpdate the request leaves out.
Unset == "<unset>"

\* ------------------------------------------------------------------ todos
\* No due date (NULL), a due date that an update leaves out, and a query
\* parameter that is left out.
NoDate == -1
UnsetDate == -2
NoFilter == "<none>"

TodoIds == 1..MaxTodos
NextTodoId == IF todos = {} THEN 1 ELSE MaxOf({t.id : t \in todos}) + 1

\* The bodies of POST /todos (TodoCreate, the free-text description left
\* out) and of PUT /todos/{id} (TodoUpdate, every field optional).
TodoForm(title, status, priority, due_date) ==
    [title |-> title, status |-> status, priority |-> priority,
     due_date |-> due_date]

\* A body with nothing but a title, and a body with every field.
TodoCreates ==
    {TodoForm("buy milk", Unset, Unset, UnsetDate),
     TodoForm("pay rent", "completed", "high", 1)}

TodoUpdates ==
    {TodoForm(Unset, "completed", Unset, UnsetDate),
     TodoForm("call home", Unset, "low", 2)}

\* TodoBase.validate_due_date, which gets the due date of the body and the
\* time of the request: it returns the value as it is, past dates included.
validate_due_date(v, t) == v

\* TodoCreate(...).model_dump(): the fields of the body, validated, and the
\* defaults of TodoBase for the fields the body leaves out.
model_dump(todo_data, t) ==
    [title |-> todo_data.title,
     status |-> IF todo_data.status = Unset THEN "pending" ELSE todo_data.status,
     priority |-> IF todo_data.priority = Unset THEN "medium"
                  ELSE todo_data.priority,
     due_date |-> IF todo_data.due_date = UnsetDate THEN NoDate
                  ELSE validate_due_date(todo_data.due_date, t)]

\* create_todo that gives every todo to the first user.
create_todo_first_user(todo_data, user_id) ==
    [id |-> NextTodoId, owner_id |-> 1,
     title |-> model_dump(todo_data, now).title,
     status |-> model_dump(todo_data, now).status,
     priority |-> model_dump(todo_data, now).priority,
     due_date |-> model_dump(todo_data, now).due_date]

create_todo(todo_data, user_id) ==
    [id |-> NextTodoId, owner_id |-> user_id,
     title |-> model_dump(todo_data, now).title,
     status |-> model_dump(todo_data, now).status,
     priority |-> model_dump(todo_data, now).priority,
     due_date |-> model_dump(todo_data, now).due_date]

\* get_todo without its filter on the owner.
get_todo_unscoped(todo_id, user_id) == {t \in todos : t.id = todo_id}

get_todo(todo_id, user_id) ==
    {t \in todos : t.id = todo_id /\ t.owner_id = user_id}

\* list_todos with skip = 0 and a limit no smaller than the table; a NULL
\* due_date never satisfies due_date <= due_before.
list_todos(user_id, status, priority, due_before) ==
    {t \in todos :
        /\ t.owner_id = user_id
        /\ status # NoFilter => t.status = status
        /\ priority # NoFilter => t.priority = priority
        /\ due_before # NoDate => (t.due_date # NoDate /\ t.due_date <= due_before)}

\* update_todo with model_dump() in place of model_dump(exclude_unset=True):
\* the fields the body leaves out are written as None.
update_todo_all_fields(todo_id, todo_data, user_id) ==
    {IF t \in get_todo(todo_id, user_id)
     THEN [t EXCEPT
             !.title = todo_data.title,
             !.status = todo_data.status,
             !.priority = todo_data.priority,
             !.due_date = IF todo_data.due_date = UnsetDate THEN NoDate
                          ELSE todo_data.due_date]
     ELSE t : t \in todos}

\* update_todo: setattr for every field the request carries, on the rows
\* get_todo returned.
update_todo(todo_id, todo_data, user_id) ==
    {IF t \in get_todo(todo_id, user_id)
     THEN [t EXCEPT
             !.title = IF todo_data.title = Unset THEN @ ELSE todo_data.title,
             !.status = IF todo_data.status = Unset THEN @ ELSE todo_data.status,
             !.priority = IF todo_data.priority = Unset THEN @
                          ELSE todo_data.priority,
             !.due_date = IF todo_data.due_date = UnsetDate THEN @
                          ELSE todo_data.due_date]
     ELSE t : t \in todos}

delete_todo(todo_id, user_id) == todos \ get_todo(todo_id, user_id)

\* POST /todos
CreateTodo(credentials, todo_data) ==
    /\ NextTodoId <= MaxTodos
    /\ IF ActiveGuard(credentials) # 200
       THEN Rejected
       ELSE /\ todos' = todos \cup {create_todo(todo_data, credentials.sub)}
            /\ UNCHANGED <<now, users, refresh_tokens, email_tokens, reset_tokens,
                           harvest_history, counters, history, inflight>>

\* The status of a request on a todo by id: 404 when get_todo finds no todo
\* with that id among the caller's own.
TodoStatus(credentials, todo_id, ok) ==
    IF ActiveGuard(credentials) # 200 THEN ActiveGuard(credentials)
    ELSE IF get_todo(todo_id, credentials.sub) = {} THEN 404
    ELSE ok

\* GET /todos/{todo_id} and GET /todos read the table and write nothing.
GetTodo(credentials, todo_id) ==
    /\ TodoStatus(credentials, todo_id, 200) \in {200, 401, 403, 404}
    /\ UNCHANGED vars

ListTodos(credentials, status, priority, due_before) ==
    /\ ActiveGuard(credentials) = 200
       => list_todos(credentials.sub, status, priority, due_before) \subseteq todos
    /\ UNCHANGED vars

\* PUT /todos/{todo_id}
UpdateTodo(credentials, todo_id, todo_data) ==
    IF TodoStatus(credentials, todo_id, 200) # 200
    THEN Rejected
    ELSE /\ todos' = update_todo(todo_id, todo_data, credentials.sub)
         /\ UNCHANGED <<now, users, refresh_tokens, email_tokens, reset_tokens,
                        harvest_history, counters, history, inflight>>

\* DELETE /todos/{todo_id}
DeleteTodo(credentials, todo_id) ==
    IF TodoStatus(credentials, todo_id, 204) # 204
    THEN Rejected
    ELSE /\ todos' = delete_todo(todo_id, credentials.sub)
         /\ UNCHANGED <<now, users, refresh_tokens, email_tokens, reset_tokens,
                        harvest_history, counters, history, inflight>>

\* ------------------------------------------- POST /todos/harvest-completed
NextHarvestId ==
    IF harvest_history = {} THEN 1
    ELSE MaxOf({h.id : h \in harvest_history}) + 1

\* The query of the handler without its filter on the owner.
completed_tasks_all_users(user_id) == {t \in todos : t.status = "completed"}

\* The query of the handler: the caller's todos whose status is completed.
completed_tasks(user_id) ==
    {t \in todos : t.owner_id = user_id /\ t.status = "completed"}

\* harvest_completed_tasks that keeps one history row per user, rewritten at
\* every harvest to the sum of the user's harvests.
HarvestCompleted_one_row(credentials) ==
    IF ActiveGuard(credentials) # 200
    THEN Rejected
    ELSE LET user_id == credentials.sub
             count == Cardinality(completed_tasks(user_id))
         IN  IF count = 0
             THEN Rejected
             ELSE /\ NextHarvestId <= MaxHarvests
                  /\ todos' = todos \ completed_tasks(user_id)
                  /\ users' = {IF u.id = user_id
                               THEN [u EXCEPT !.total_completed_count = @ + count]
                               ELSE u : u \in users}
                  /\ harvest_history' =
                        {h \in harvest_history : h.user_id # user_id} \cup
                        {[id |-> NextHarvestId, user_id |-> user_id,
                          count |-> CurrentUser(credentials).total_completed_count
                                    + count]}
                  /\ UNCHANGED <<now, refresh_tokens, email_tokens, reset_tokens,
                                 counters, history, inflight>>

\* harvest_completed_tasks. With no completed todo the handler returns before
\* it writes; otherwise it deletes the todos it found, adds their number to
\* the caller's total_completed_count, inserts one HarvestHistory row and
\* commits. The caller's row is the one the guard loaded, in the session of
\* the request.
HarvestCompleted(credentials) ==
    IF ActiveGuard(credentials) # 200
    THEN Rejected
    ELSE LET user_id == credentials.sub
             count == Cardinality(completed_tasks(user_id))
         IN  IF count = 0
             THEN Rejected
             ELSE /\ NextHarvestId <= MaxHarvests
                  /\ todos' = todos \ completed_tasks(user_id)
                  /\ users' = {IF u.id = user_id
                               THEN [u EXCEPT !.total_completed_count = @ + count]
                               ELSE u : u \in users}
                  /\ harvest_history' = harvest_history \cup
                        {[id |-> NextHarvestId, user_id |-> user_id,
                          count |-> count]}
                  /\ UNCHANGED <<now, refresh_tokens, email_tokens, reset_tokens,
                                 counters, history, inflight>>

\* ------------------------------------------------------------ PUT /users/me
\* update_user: setattr for every field the request carries.
update_user(rows, user_id, email, username) ==
    {IF u.id = user_id
     THEN [u EXCEPT !.email = IF email = Unset THEN @ ELSE email,
                    !.username = IF username = Unset THEN @ ELSE username]
     ELSE u : u \in rows}

\* The columns email and username of users are declared unique: a commit
\* that would leave two rows with the same value raises IntegrityError and
\* writes nothing.  The variant below is the table without the constraints.
IntegrityError_unconstrained(rows) == FALSE

IntegrityError(rows) ==
    \E u, v \in rows :
        /\ u.id # v.id
        /\ u.email = v.email \/ u.username = v.username

\* The checks of update_my_profile; a value that is falsy or equal to the
\* caller's own is not looked up.
ProfileCheck(current_user, email, username) ==
    IF /\ email \notin {Unset, ""}
       /\ email # current_user.email
       /\ get_user_by_email(email) # {}
    THEN 400
    ELSE IF /\ username # Unset
            /\ username # current_user.username
            /\ get_user_by_username(username) # {}
    THEN 400
    ELSE 200

UpdateMyProfileStatus(credentials, email, username) ==
    IF ActiveGuard(credentials) # 200 THEN ActiveGuard(credentials)
    ELSE IF ProfileCheck(CurrentUser(credentials), email, username) # 200 THEN 400
    ELSE IF IntegrityError(update_user(users, credentials.sub, email, username))
    THEN 500
    ELSE 200

UpdateMyProfile(credentials, email, username) ==
    IF UpdateMyProfileStatus(credentials, email, username) # 200
    THEN Rejected
    ELSE /\ users' = update_user(users, credentials.sub, email, username)
         /\ UNCHANGED <<now, todos, harvest_history, refresh_tokens, email_tokens, reset_tokens, counters,
                        history, inflight>>

\* make_admin.py: the operator's script that promotes a user to admin.
MakeAdmin(username) ==
    /\ get_user_by_username(username) # {}
    /\ users' = {IF u.username = username THEN [u EXCEPT !.role = "admin"] ELSE u
                 : u \in users}
    /\ UNCHANGED <<now, todos, harvest_history, refresh_tokens, email_tokens, reset_tokens, counters, history, inflight>>

\* The status of a request on the admin path that targets a user.
\* The admin handlers without the comparison of user_id with current_admin.id.
AdminStatus_no_self_check(credentials, user_id, ok) ==
    IF AdminGuard(credentials) # 200 THEN AdminGuard(credentials)
    ELSE IF get_user_by_id(user_id) = {} THEN 404
    ELSE ok

AdminStatus(credentials, user_id, ok) ==
    IF AdminGuard(credentials) # 200 THEN AdminGuard(credentials)
    ELSE IF user_id = credentials.sub THEN 400
    ELSE IF get_user_by_id(user_id) = {} THEN 404
    ELSE ok

\* PUT /admin/users/{user_id}/role
AdminUpdateRole(credentials, user_id, role) ==
    IF AdminStatus(credentials, user_id, 200) # 200
    THEN Rejected
    ELSE /\ users' = update_user_role(users, user_id, role)
         /\ UNCHANGED <<now, todos, harvest_history, refresh_tokens, email_tokens, reset_tokens, counters,
                        history, inflight>>

\* PUT /admin/users/{user_id}/status
AdminUpdateStatus(credentials, user_id, is_active) ==
    IF AdminStatus(credentials, user_id, 200) # 200
    THEN Rejected
    ELSE /\ users' = update_user_status(users, user_id, is_active)
         /\ UNCHANGED <<now, todos, harvest_history, refresh_tokens, email_tokens, reset_tokens, counters,
                        history, inflight>>

\* DELETE /admin/users/{user_id}
AdminDeleteUser(credentials, user_id) ==
    IF AdminStatus(credentials, user_id, 204) # 204
    THEN Rejected
    ELSE /\ delete_user(user_id)
         /\ ended' = ended \cup EndAll(user_id)
         /\ UNCHANGED <<now, counters, issued, rotated, inflight>>

\* The periodic sweep: token_repo.cleanup_expired_tokens.
CleanupExpiredTokens ==
    /\ refresh_tokens' = cleanup_expired_tokens(refresh_tokens, now)
    /\ email_tokens' = cleanup_expired_tokens(email_tokens, now)
    /\ reset_tokens' = cleanup_expired_tokens(reset_tokens, now)
    /\ UNCHANGED <<now, todos, harvest_history, users, counters, history, inflight>>

\* The clock advances.
Tick ==
    /\ now < MaxTime
    /\ now' = now + 1
    /\ UNCHANGED <<db, counters, history, inflight>>

\* The clock runs on to the end of the second that MaxTime lies in.
TickToSecondEnd ==
    /\ now >= MaxTime
    /\ now < MaxTime + TicksPerSecond - 1
    /\ now' = now + 1
    /\ UNCHANGED <<db, counters, history, inflight>>

\* ------------------------------- POST /auth/refresh, one store access at a time
\* The handler refresh_token of routers/auth.py as the store sees it: the
\* lookup of the presented token, the decoding and the lookup of the user,
\* the revocation of the presented token, the insertion of the new one.
Served(r, pc, status) == [inflight EXCEPT ![r].pc = pc, ![r].status = status]

RefreshBegin(r, token) ==
    /\ inflight[r].pc = "idle"
    /\ inflight' = [inflight EXCEPT ![r] = Request("refresh", "lookup", token, 0)]
    /\ UNCHANGED <<now, db, counters, history>>

RefreshLookup(r) ==
    /\ inflight[r].pc = "lookup"
    /\ inflight' = IF get_refresh_token(inflight[r].token) = {}
                   THEN Served(r, "done", 401)
                   ELSE Served(r, "verify", 0)
    /\ UNCHANGED <<now, db, counters, history>>

\* refresh_token that revokes the presented token when it turns the request
\* down for an inactive user.
RefreshVerify_revokes_inactive(r) ==
    /\ inflight[r].pc = "verify"
    /\ LET token == inflight[r].token
           inactive == /\ verify_token(token, "refresh", now)
                       /\ \E u \in get_user_by_id(token.sub) : ~u.is_active
       IN /\ inflight' =
                IF ~verify_token(token, "refresh", now) THEN Served(r, "done", 401)
                ELSE IF get_user_by_id(token.sub) = {} THEN Served(r, "done", 401)
                ELSE IF inactive THEN Served(r, "done", 401)
                ELSE Served(r, "revoke", 0)
          /\ refresh_tokens' = IF inactive
                               THEN revoke_refresh_token(refresh_tokens, token)
                               ELSE refresh_tokens
    /\ UNCHANGED <<now, todos, harvest_history, users, email_tokens,
                   reset_tokens, counters, history>>

RefreshVerify(r) ==
    /\ inflight[r].pc = "verify"
    /\ LET token == inflight[r].token
       IN inflight' =
             IF ~verify_token(token, "refresh", now) THEN Served(r, "done", 401)
             ELSE IF get_user_by_id(token.sub) = {} THEN Served(r, "done", 401)
             ELSE IF \E u \in get_user_by_id(token.sub) : ~u.is_active
                  THEN Served(r, "done", 401)
             ELSE Served(r, "revoke", 0)
    /\ UNCHANGED <<now, db, counters, history>>

RefreshRevoke(r) ==
    /\ inflight[r].pc = "revoke"
    /\ refresh_tokens' = revoke_refresh_token(refresh_tokens, inflight[r].token)
    /\ inflight' = Served(r, "store", 0)
    /\ UNCHANGED <<now, todos, harvest_history, users, email_tokens, reset_tokens, counters, history>>

RefreshStore(r) ==
    /\ inflight[r].pc = "store"
    /\ next_jti <= MaxRefresh
    /\ LET token == inflight[r].token
           new_access_token == create_access_token(token.sub, now)
           new_refresh_token == create_refresh_token(token.sub, now, next_jti)
       IN /\ refresh_tokens' = refresh_tokens \cup
                               {RefreshRow(new_refresh_token, token.sub, now)}
          /\ next_jti' = next_jti + 1
          /\ issued' = issued \cup
                 {Grant("refresh", new_access_token, new_refresh_token)}
          /\ rotated' = rotated \cup {token}
    /\ inflight' = Served(r, "done", 200)
    /\ UNCHANGED <<now, todos, harvest_history, users, email_tokens, reset_tokens, next_email, next_reset,
                   ended>>

\* ------------------- register and PUT /users/me, one store access at a time
\* The two handlers as the store sees them when several workers serve
\* requests: the look-ups of the checks first, the commit later.
Form(email, username, user_id) ==
    [email |-> email, username |-> username, user_id |-> user_id]

\* The answer to request r; the request body is dropped with it.
Answered(r, op, status) == [inflight EXCEPT ![r] = Request(op, "done", NoToken, status)]

\* Requests are numbered in the order they arrive.
Arrives(r) ==
    /\ inflight[r].pc = "idle"
    /\ \A q \in RequestIds : q < r => inflight[q].pc # "idle"

RegisterBegin(r, email, username) ==
    /\ Arrives(r)
    /\ inflight' =
            IF RegisterStatus(email, username) # 201
            THEN Answered(r, "register", 400)
            ELSE [inflight EXCEPT ![r] =
                     Request("register", "commit", Form(email, username, 0), 0)]
    /\ UNCHANGED <<now, db, counters, history>>

RegisterCommit(r) ==
    /\ inflight[r].pc = "commit"
    /\ inflight[r].op = "register"
    /\ NextUserId <= MaxUsers
    /\ next_email <= MaxEmailTokens
    /\ LET form == inflight[r].token
           db_user == create_user(form.email, form.username, "Pw1")
       IN IF IntegrityError(users \cup {db_user})
          THEN /\ inflight' = Answered(r, inflight[r].op, 500)
               /\ UNCHANGED <<now, db, counters, history>>
          ELSE /\ users' = users \cup {db_user}
               /\ email_tokens' = email_tokens \cup
                                  {EmailRow(next_email, NextUserId, now)}
               /\ next_email' = next_email + 1
               /\ inflight' = Answered(r, "register", 201)
               /\ UNCHANGED <<now, todos, harvest_history, refresh_tokens, reset_tokens, next_jti,
                              next_reset, history>>

ProfileBegin(r, credentials, email, username) ==
    /\ Arrives(r)
    /\ inflight' =
            IF ActiveGuard(credentials) # 200
            THEN Answered(r, "profile", ActiveGuard(credentials))
            ELSE IF ProfileCheck(CurrentUser(credentials), email, username) # 200
            THEN Answered(r, "profile", 400)
            ELSE [inflight EXCEPT ![r] =
                     Request("profile", "commit",
                             Form(email, username, credentials.sub), 0)]
    /\ UNCHANGED <<now, db, counters, history>>

ProfileCommit(r) ==
    /\ inflight[r].pc = "commit"
    /\ inflight[r].op = "profile"
    /\ LET form == inflight[r].token
           rows == update_user(users, form.user_id, form.email, form.username)
       IN IF get_user_by_id(form.user_id) = {}
          THEN /\ inflight' = Answered(r, "profile", 404)
               /\ UNCHANGED <<now, db, counters, history>>
          ELSE IF IntegrityError(rows)
          THEN /\ inflight' = Answered(r, inflight[r].op, 500)
               /\ UNCHANGED <<now, db, counters, history>>
          ELSE /\ users' = rows
               /\ inflight' = Answered(r, "profile", 200)
               /\ UNCHANGED <<now, todos, harvest_history, refresh_tokens, email_tokens, reset_tokens,
                              counters, history>>

\* ------------------------------------------------------- request inputs
\* The opaque verification and reset tokens a client can present: the ones
\* sent out so far, and one that never was.
EmailTokenInputs == 0..(next_email - 1)
ResetTokenInputs == 0..(next_reset - 1)

\* The sign-up forms and log-in names the requests are drawn from, and the
\* user the operator promotes.
SignUps == {<<"a@x", "ann">>, <<"b@x", "bob">>}
LoginNames == {"ann", "b@x"}
Operators == {"ann"}

\* Identifiers a client may send to login: the sign-up names, the sign-up
\* emails and one that no sign-up form carries.
Identifiers == {"ann", "bob", "a@x", "b@x", "nobody"}

\* ------------------------------------------------------------ the sessions
\* Sign-up, log-in, rotation, log-out, the sweep and the clock, for two
\* users.  The sessions of this specification end by log-out only.
Next ==
    \/ \E f \in SignUps : Register(f[1], f[2], "Pw1")
    \/ \E i \in LoginNames, p \in Passwords : Login(i, p)
    \/ \E t \in PresentedTokens : Refresh(t)
    \/ \E c \in Bearers, t \in PresentedTokens : Logout(c, t)
    \/ CleanupExpiredTokens
    \/ Tick

Spec == Init /\ [][Next]_vars

\* ------------------------------------------------- one user's life cycle
\* Everything one user can do to the own account and its sessions: log-out,
\* password change and deletion of the account, followed by a new sign-up.
NextAccount ==
    \/ Register("a@x", "ann", "Pw1")
    \/ \E p \in Passwords : Login("ann", p)
    \/ \E t \in PresentedTokens : Refresh(t)
    \/ \E c \in Bearers, t \in PresentedTokens : Logout(c, t)
    \/ \E c \in Bearers, o \in Passwords, p \in Passwords : ChangePassword(c, o, p)
    \/ \E c \in Bearers : DeleteMyAccount(c)
    \/ CleanupExpiredTokens
    \/ Tick

SpecAccount == Init /\ [][NextAccount]_vars

\* ------------------------------------------------------------ deactivation
\* An admin deactivates and reactivates the other user between that user's
\* log-ins and refreshes.
NextAdmin ==
    \/ \E f \in SignUps : Register(f[1], f[2], "Pw1")
    \/ \E i \in LoginNames, p \in Passwords : Login(i, p)
    \/ \E t \in PresentedTokens : Refresh(t)
    \/ \E n \in Operators : MakeAdmin(n)
    \/ \E c \in Bearers, u \in UserIds, a \in BOOLEAN : AdminUpdateStatus(c, u, a)
    \/ CleanupExpiredTokens
    \/ Tick

SpecAdmin == Init /\ [][NextAdmin]_vars

\* ------------------------------------------------------ password recovery
\* The sessions of this specification end by reset-password only.
NextRecovery ==
    \/ Register("a@x", "ann", "Pw1")
    \/ \E p \in Passwords : Login("ann", p)
    \/ \E t \in PresentedTokens : Refresh(t)
    \/ \E e \in Emails : ForgotPassword(e)
    \/ \E t \in ResetTokenInputs, p \in Passwords : ResetPassword(t, p)
    \/ CleanupExpiredTokens
    \/ Tick

SpecRecovery == Init /\ [][NextRecovery]_vars

\* -------------------------------------------------------- password change
\* The sessions of this specification end by change-password only.
NextPassword ==
    \/ \E f \in SignUps : Register(f[1], f[2], "Pw1")
    \/ \E i \in LoginNames, p \in Passwords : Login(i, p)
    \/ \E t \in PresentedTokens : Refresh(t)
    \/ \E c \in Bearers, o \in Passwords, p \in Passwords : ChangePassword(c, o, p)
    \/ CleanupExpiredTokens
    \/ Tick

SpecPassword == Init /\ [][NextPassword]_vars

\* ------------------------------------------------------ email verification
NextVerify ==
    \/ \E f \in SignUps : Register(f[1], f[2], "Pw1")
    \/ \E i \in LoginNames, p \in Passwords : Login(i, p)
    \/ \E t \in EmailTokenInputs : VerifyEmail(t)
    \/ \E c \in Bearers : ResendVerification(c)
    \/ \E c \in Bearers : DeleteMyAccount(c)
    \/ CleanupExpiredTokens
    \/ Tick

SpecVerify == Init /\ [][NextVerify]_vars

\* ------------------------------------------------- refresh requests racing
NextRace ==
    \/ \E f \in SignUps : Register(f[1], f[2], "Pw1")
    \/ \E i \in LoginNames, p \in Passwords : Login(i, p)
    \/ \E r \in RequestIds, t \in PresentedTokens : RefreshBegin(r, t)
    \/ \E r \in RequestIds : RefreshLookup(r)
    \/ \E r \in RequestIds : RefreshVerify(r)
    \/ \E r \in RequestIds : RefreshRevoke(r)
    \/ \E r \in RequestIds : RefreshStore(r)
    \/ Tick

SpecRace == Init /\ [][NextRace]_vars

\* ------------------------------------------------ sign-up and the profile
\* Sign-up with every combination of email and username and the profile
\* update, each both as one step and as a check followed by a commit that
\* other requests can come between; account deletion.  The callers present
\* the access token a log-in has just returned to them: every user of this
\* specification is active and the clock stands still.
Usernames == {"ann", "bob"}
SessionBearers == {create_access_token(u.id, now) : u \in users}
\* The bodies of PUT /users/me: a new email, an empty email, a new username.
ProfileForms == {<<"a@x", Unset>>, <<"b@x", Unset>>, <<"", Unset>>, <<Unset, "bob">>}

NextProfile ==
    \/ \E e \in Emails, n \in Usernames : Register(e, n, "Pw1")
    \/ \E c \in SessionBearers, f \in ProfileForms : UpdateMyProfile(c, f[1], f[2])
    \/ \E c \in SessionBearers : DeleteMyAccount(c)
    \/ \E r \in RequestIds, f \in SignUps : RegisterBegin(r, f[1], f[2])
    \/ \E r \in RequestIds : RegisterCommit(r)
    \/ \E r \in RequestIds, c \in SessionBearers, f \in ProfileForms :
          ProfileBegin(r, c, f[1], f[2])
    \/ \E r \in RequestIds : ProfileCommit(r)

SpecProfile == Init /\ [][NextProfile]_vars

\* ---------------------- POST /auth/reset-password, one store call at a time
\* The handler reset_password as the store sees it: the lookup of the token,
\* then three repository calls that commit one after the other,
\* update_user_password, mark_reset_token_used and revoke_all_user_tokens.
\* The handler catches nothing: an exception of the second or third call ends
\* the request with 500 and leaves what was committed before.
ResetBegin(r, token, new_password) ==
    /\ Arrives(r)
    /\ inflight' =
            IF get_password_reset_token(token, now) = {}
            THEN [inflight EXCEPT ![r] =
                     Request("reset", "done",
                             [token |-> token, new_password |-> new_password,
                              user_id |-> 0], 400)]
            ELSE [inflight EXCEPT ![r] =
                     Request("reset", "password",
                             [token |-> token, new_password |-> new_password,
                              user_id |-> (CHOOSE db_token \in
                                  get_password_reset_token(token, now) : TRUE).user_id],
                             0)]
    /\ UNCHANGED <<now, db, counters, history>>

ResetUpdatePassword(r) ==
    /\ inflight[r].pc = "password"
    /\ LET body == inflight[r].token
       IN IF get_user_by_id(body.user_id) = {}
          THEN /\ inflight' = Served(r, "done", 404)
               /\ UNCHANGED <<now, db, counters, history>>
          ELSE /\ users' = update_user_password(users, body.user_id,
                                                 body.new_password)
               /\ inflight' = Served(r, "mark", 0)
               /\ UNCHANGED <<now, todos, harvest_history, refresh_tokens,
                              email_tokens, reset_tokens, counters, history>>

ResetMarkUsed(r) ==
    /\ inflight[r].pc = "mark"
    /\ reset_tokens' = mark_reset_token_used(reset_tokens, inflight[r].token.token)
    /\ inflight' = Served(r, "revoke", 0)
    /\ UNCHANGED <<now, todos, harvest_history, users, refresh_tokens,
                   email_tokens, counters, history>>

ResetRevokeAll(r) ==
    /\ inflight[r].pc = "revoke"
    /\ refresh_tokens' =
            revoke_all_user_tokens(refresh_tokens, inflight[r].token.user_id)
    /\ ended' = ended \cup EndAll(inflight[r].token.user_id)
    /\ inflight' = Served(r, "done", 200)
    /\ UNCHANGED <<now, todos, harvest_history, users, email_tokens,
                   reset_tokens, counters, issued, rotated>>

\* mark_reset_token_used or revoke_all_user_tokens raises (the commit fails,
\* the connection is lost): the exception leaves the handler.
ResetRaises(r) ==
    /\ inflight[r].pc \in {"mark", "revoke"}
    /\ inflight' = Served(r, "done", 500)
    /\ UNCHANGED <<now, db, counters, history>>

\* ------------------------------ the admin routes, guard and handler apart
\* update_user_role, update_user_status and delete_user of routers/admin.py
\* when several workers serve requests: require_admin loads the caller and
\* checks role and active flag, the handler then compares the ids and writes.
\* Requests of other workers may commit in between.
AdminBegin(r, credentials, op, user_id, role, is_active) ==
    /\ Arrives(r)
    /\ inflight' =
            IF AdminGuard(credentials) # 200
            THEN Answered(r, op, AdminGuard(credentials))
            ELSE [inflight EXCEPT ![r] =
                     Request(op, "handler",
                             [current_admin |-> CurrentUser(credentials).id,
                              user_id |-> user_id, role |-> role,
                              is_active |-> is_active], 0)]
    /\ UNCHANGED <<now, db, counters, history>>

AdminCommit(r) ==
    /\ inflight[r].pc = "handler"
    /\ inflight[r].op \in {"role", "status", "delete"}
    /\ LET body == inflight[r].token
       IN IF body.user_id = body.current_admin
          THEN /\ inflight' = Answered(r, inflight[r].op, 400)
               /\ UNCHANGED <<now, db, counters, history>>
          ELSE IF get_user_by_id(body.user_id) = {}
          THEN /\ inflight' = Answered(r, inflight[r].op, 404)
               /\ UNCHANGED <<now, db, counters, history>>
          ELSE IF inflight[r].op = "delete"
          THEN /\ delete_user(body.user_id)
               /\ ended' = ended \cup EndAll(body.user_id)
               /\ inflight' = Answered(r, "delete", 204)
               /\ UNCHANGED <<now, counters, issued, rotated>>
          ELSE /\ users' = IF inflight[r].op = "role"
                           THEN update_user_role(users, body.user_id, body.role)
                           ELSE update_user_status(users, body.user_id,
                                                   body.is_active)
               /\ inflight' = Answered(r, inflight[r].op, 200)
               /\ UNCHANGED <<now, todos, harvest_history, refresh_tokens,
                              email_tokens, reset_tokens, counters, history>>

\* ------------------------ POST /auth/verify-email, one store call at a time
\* The handler verify_email as the store sees it: the lookup of the token,
\* verify_user_email, mark_email_token_used.
VerifyBegin(r, token) ==
    /\ Arrives(r)
    /\ inflight' =
            IF get_email_verification_token(token, now) = {}
            THEN [inflight EXCEPT ![r] =
                     Request("verify", "done", [token |-> token, user_id |-> 0], 400)]
            ELSE [inflight EXCEPT ![r] =
                     Request("verify", "user",
                             [token |-> token,
                              user_id |-> (CHOOSE db_token \in
                                  get_email_verification_token(token, now) : TRUE).user_id],
                             0)]
    /\ UNCHANGED <<now, db, counters, history>>

\* verify_email that marks the token used before it looks the user up.
VerifyUser_marks_first(r) ==
    /\ inflight[r].pc = "user"
    /\ email_tokens' = mark_email_token_used(email_tokens, inflight[r].token.token)
    /\ inflight' = IF get_user_by_id(inflight[r].token.user_id) = {}
                   THEN Served(r, "done", 404)
                   ELSE Served(r, "mark", 0)
    /\ UNCHANGED <<now, todos, harvest_history, users, refresh_tokens,
                   reset_tokens, counters, history>>

VerifyUser(r) ==
    /\ inflight[r].pc = "user"
    /\ IF get_user_by_id(inflight[r].token.user_id) = {}
       THEN /\ inflight' = Served(r, "done", 404)
            /\ UNCHANGED <<now, db, counters, history>>
       ELSE /\ users' = verify_user_email(users, inflight[r].token.user_id)
            /\ inflight' = Served(r, "mark", 0)
            /\ UNCHANGED <<now, todos, harvest_history, refresh_tokens,
                           email_tokens, reset_tokens, counters, history>>

VerifyMarkUsed(r) ==
    /\ inflight[r].pc = "mark"
    /\ email_tokens' = mark_email_token_used(email_tokens, inflight[r].token.token)
    /\ inflight' = Served(r, "done", 200)
    /\ UNCHANGED <<now, todos, harvest_history, users, refresh_tokens,
                   reset_tokens, counters, history>>

\* ----------------- POST /todos/harvest-completed, the guard and the handler
\* The guard runs first and loads the caller's row into the session of the
\* request; the handler, a plain def that the server runs on a worker thread,
\* then reads the todos, computes the counter from the row the guard loaded
\* and commits. Requests of other threads may commit in between.
HarvestBegin(r, credentials) ==
    /\ Arrives(r)
    /\ inflight' =
            IF ActiveGuard(credentials) # 200
            THEN Answered(r, "harvest", ActiveGuard(credentials))
            ELSE [inflight EXCEPT ![r] =
                     Request("harvest", "commit", CurrentUser(credentials), 0)]
    /\ UNCHANGED <<now, db, counters, history>>

HarvestCommit(r) ==
    /\ inflight[r].pc = "commit"
    /\ inflight[r].op = "harvest"
    /\ LET current_user == inflight[r].token
           count == Cardinality(completed_tasks(current_user.id))
       IN IF count = 0
          THEN /\ inflight' = Answered(r, "harvest", 200)
               /\ UNCHANGED <<now, db, counters, history>>
          ELSE /\ NextHarvestId <= MaxHarvests
               /\ todos' = todos \ completed_tasks(current_user.id)
               /\ users' = {IF u.id = current_user.id
                            THEN [u EXCEPT !.total_completed_count =
                                     current_user.total_completed_count + count]
                            ELSE u : u \in users}
               /\ harvest_history' = harvest_history \cup
                     {[id |-> NextHarvestId, user_id |-> current_user.id,
                       count |-> count]}
               /\ inflight' = Answered(r, "harvest", 200)
               /\ UNCHANGED <<now, refresh_tokens, email_tokens, reset_tokens,
                              counters, history>>

\* The sum the leaderboard takes over harvest-history rows, func.sum of the
\* count column.
RECURSIVE func_sum(_)
func_sum(rows) ==
    IF rows = {} THEN 0
    ELSE LET h == CHOOSE h \in rows : TRUE
         IN h.count + func_sum(rows \ {h})

\* ------------------------------------------------------------------ todos
\* Two users and their todos: creation, the requests by id, the list, and
\* account deletion, which takes the user's todos along.
TodoFilters ==
    {<<NoFilter, NoFilter, NoDate>>, <<"completed", NoFilter, NoDate>>,
     <<NoFilter, "low", NoDate>>, <<NoFilter, NoFilter, 1>>,
     <<"completed", "high", 1>>}

NextTodos ==
    \/ \E f \in SignUps : Register(f[1], f[2], "Pw1")
    \/ \E c \in SessionBearers, d \in TodoCreates : CreateTodo(c, d)
    \/ \E c \in SessionBearers, i \in TodoIds : GetTodo(c, i)
    \/ \E c \in SessionBearers, f \in TodoFilters : ListTodos(c, f[1], f[2], f[3])
    \/ \E c \in SessionBearers, i \in TodoIds, d \in TodoUpdates : UpdateTodo(c, i, d)
    \/ \E c \in SessionBearers, i \in TodoIds : DeleteTodo(c, i)
    \/ \E c \in SessionBearers : DeleteMyAccount(c)

SpecTodos == Init /\ [][NextTodos]_vars

\* One user who creates and updates todos while time passes, so that the due
\* dates of the bodies lie in the future, at the present moment or in the past.
NextDueDates ==
    \/ Register("a@x", "ann", "Pw1")
    \/ \E c \in SessionBearers, d \in TodoCreates : CreateTodo(c, d)
    \/ \E c \in SessionBearers, i \in TodoIds, d \in TodoUpdates : UpdateTodo(c, i, d)
    \/ \E c \in SessionBearers, i \in TodoIds : DeleteTodo(c, i)
    \/ Tick

SpecDueDates == Init /\ [][NextDueDates]_vars

\* ---------------------------------------------------------------- harvest
\* Two users who create todos, complete them and harvest the completed ones.
NextHarvest ==
    \/ \E f \in SignUps : Register(f[1], f[2], "Pw1")
    \/ \E c \in SessionBearers, d \in TodoCreates : CreateTodo(c, d)
    \/ \E c \in SessionBearers, i \in TodoIds :
          UpdateTodo(c, i, TodoForm(Unset, "completed", Unset, UnsetDate))
    \/ \E c \in SessionBearers : HarvestCompleted(c)

SpecHarvest == Init /\ [][NextHarvest]_vars

\* -------------------------------------------------------------- the sweep
\* One user whose tokens of the three kinds are issued, used and left to
\* expire while the sweep runs at any moment.
NextSweep ==
    \/ Register("a@x", "ann", "Pw1")
    \/ Login("ann", "Pw1")
    \/ ForgotPassword("a@x")
    \/ \E t \in RefreshTokens : Refresh(t)
    \/ \E t \in EmailTokenInputs : VerifyEmail(t)
    \/ CleanupExpiredTokens
    \/ Tick
    \/ TickToSecondEnd

SpecSweep == Init /\ [][NextSweep]_vars

\* ---------------------------------------------------- roles and statuses
\* Two users, one of them made admin by the operator's script; every bearer
\* sends the three admin requests on every user id, and the requests open to
\* every user: profile update, password change, todo creation.
NextRoles ==
    \/ \E f \in SignUps : Register(f[1], f[2], "Pw1")
    \/ \E n \in Operators : MakeAdmin(n)
    \/ \E c \in SessionBearers, u \in UserIds, r \in {"user", "admin"} :
          AdminUpdateRole(c, u, r)
    \/ \E c \in SessionBearers, u \in UserIds, a \in BOOLEAN :
          AdminUpdateStatus(c, u, a)
    \/ \E c \in SessionBearers, u \in UserIds : AdminDeleteUser(c, u)
    \/ \E c \in SessionBearers, f \in ProfileForms : UpdateMyProfile(c, f[1], f[2])
    \/ \E c \in SessionBearers, o \in Passwords, p \in Passwords :
          ChangePassword(c, o, p)
    \/ \E c \in SessionBearers, d \in TodoCreates : CreateTodo(c, d)

SpecRoles == Init /\ [][NextRoles]_vars

\* ------------------------------------------------------- account deletion
\* An admin (ann) and a user (bob) who fills every table that refers to a
\* user: logins, a forgotten password, completed todos and harvests. Accounts
\* are deleted by their owners and by the admin, and the refresh tokens of
\* deleted accounts are presented again.
NextCascade ==
    \/ \E f \in SignUps : Register(f[1], f[2], "Pw1")
    \/ Login("bob", "Pw1")
    \/ ForgotPassword("b@x")
    \/ \E u \in get_user_by_username("bob") :
          CreateTodo(create_access_token(u.id, now),
                     TodoForm("pay rent", "completed", "high", 1))
    \/ \E u \in get_user_by_username("bob") :
          HarvestCompleted(create_access_token(u.id, now))
    \/ \E n \in Operators : MakeAdmin(n)
    \/ \E c \in SessionBearers, u \in UserIds : AdminDeleteUser(c, u)
    \/ \E c \in SessionBearers : DeleteMyAccount(c)
    \/ \E t \in ended : Refresh(t)

SpecCascade == Init /\ [][NextCascade]_vars

\* One user who logs in with the first password, whose refresh requests are
\* served one store call at a time, and whose password becomes the second
\* one by change-password or reset-password; no log-in uses the new password.
NextPasswordRace ==
    \/ Register("a@x", "ann", "Pw1")
    \/ Login("ann", "Pw1")
    \/ \E r \in RequestIds, t \in RefreshTokens : RefreshBegin(r, t)
    \/ \E r \in RequestIds : RefreshLookup(r)
    \/ \E r \in RequestIds : RefreshVerify(r)
    \/ \E r \in RequestIds : RefreshRevoke(r)
    \/ \E r \in RequestIds : RefreshStore(r)
    \/ \E c \in SessionBearers : ChangePassword(c, "Pw1", "Pw2")
    \/ ForgotPassword("a@x")
    \/ \E t \in ResetTokenInputs : ResetPassword(t, "Pw2")

SpecPasswordRace == Init /\ [][NextPasswordRace]_vars

\* Two users, either of them made admin by the operator, and the admin
\* routes served by several workers.
NextAdminRace ==
    \/ \E f \in SignUps : Register(f[1], f[2], "Pw1")
    \/ \E n \in Usernames : MakeAdmin(n)
    \/ \E r \in RequestIds, c \in SessionBearers, u \in UserIds,
          role \in {"user", "admin"} : AdminBegin(r, c, "role", u, role, TRUE)
    \/ \E r \in RequestIds, c \in SessionBearers, u \in UserIds,
          a \in BOOLEAN : AdminBegin(r, c, "status", u, "user", a)
    \/ \E r \in RequestIds, c \in SessionBearers, u \in UserIds :
          AdminBegin(r, c, "delete", u, "user", TRUE)
    \/ \E r \in RequestIds : AdminCommit(r)

SpecAdminRace == Init /\ [][NextAdminRace]_vars

\* Sign-ups whose username may be any string of three characters or more, an
\* email address included (UserBase: email is a str, username has a length
\* only), and log-ins by email and by username.
NextIdentifiers ==
    \/ \E e \in Emails, n \in {"ann", "a@x"}, p \in Passwords : Register(e, n, p)
    \/ \E i \in Emails \cup {"ann"}, p \in Passwords : Login(i, p)
    \/ \E c \in SessionBearers : DeleteMyAccount(c)

SpecIdentifiers == Init /\ [][NextIdentifiers]_vars

\* Refresh requests of a user whom an admin deactivates and reactivates while
\* the clock runs; the answers stay on record with the presented tokens. Two
\* refresh requests are served, the second after the first was answered.
NextRefreshFail ==
    \/ \E f \in SignUps : Register(f[1], f[2], "Pw1")
    \/ \E n \in Operators : MakeAdmin(n)
    \/ Login("b@x", "Pw1")
    \/ \E c \in SessionBearers, a \in BOOLEAN : AdminUpdateStatus(c, 2, a)
    \/ \E r \in {1, 2}, t \in PresentedTokens :
          /\ \A q \in RequestIds : inflight[q].pc \in {"idle", "done"}
          /\ RefreshBegin(r, t)
    \/ \E r \in RequestIds : RefreshLookup(r)
    \/ \E r \in RequestIds : RefreshVerify(r)
    \/ \E r \in RequestIds : RefreshRevoke(r)
    \/ \E r \in RequestIds : RefreshStore(r)
    \/ Tick

SpecRefreshFail == Init /\ [][NextRefreshFail]_vars

\* Verify-email requests of two users, served one store call at a time while
\* accounts are deleted.
NextVerifySteps ==
    \/ \E f \in SignUps : Register(f[1], f[2], "Pw1")
    \/ \E r \in RequestIds, t \in EmailTokenInputs : VerifyBegin(r, t)
    \/ \E r \in RequestIds : VerifyUser(r)
    \/ \E r \in RequestIds : VerifyMarkUsed(r)
    \/ \E c \in SessionBearers : DeleteMyAccount(c)

SpecVerifySteps == Init /\ [][NextVerifySteps]_vars

\* Reset-password requests that overlap each other and logins, and whose
\* later store calls may fail.
NextResetRace ==
    \/ Register("a@x", "ann", "Pw1")
    \/ \E p \in Passwords : Login("ann", p)
    \/ ForgotPassword("a@x")
    \/ \E r \in RequestIds, t \in ResetTokenInputs, p \in Passwords :
          ResetBegin(r, t, p)
    \/ \E r \in RequestIds : ResetUpdatePassword(r)
    \/ \E r \in RequestIds : ResetMarkUsed(r)
    \/ \E r \in RequestIds : ResetRevokeAll(r)
    \/ \E r \in RequestIds : ResetRaises(r)

SpecResetRace == Init /\ [][NextResetRace]_vars

\* Harvests that overlap each other and the creation of todos.
NextHarvestRace ==
    \/ \E f \in SignUps : Register(f[1], f[2], "Pw1")
    \/ \E c \in SessionBearers, d \in TodoCreates : CreateTodo(c, d)
    \/ \E r \in RequestIds, c \in SessionBearers : HarvestBegin(r, c)
    \/ \E r \in RequestIds : HarvestCommit(r)

SpecHarvestRace == Init /\ [][NextHarvestRace]_vars

\* -------------------------------------------------------------- the guard
\* Users who log in, get deactivated by an admin and delete their account,
\* while the clock runs: the credentials presented are every token handed
\* out so far, access or refresh, and a forged one; the admin requests come
\* with the access tokens and the forged one.
NextGuard ==
    \/ \E f \in SignUps : Register(f[1], f[2], "Pw1")
    \/ \E i \in LoginNames : Login(i, "Pw1")
    \/ \E n \in Operators : MakeAdmin(n)
    \/ \E c \in Bearers, u \in UserIds, a \in BOOLEAN : AdminUpdateStatus(c, u, a)
    \/ \E c \in Credentials : DeleteMyAccount(c)
    \/ Tick

SpecGuard == Init /\ [][NextGuard]_vars

\* One user who sends every token it holds, access or refresh, both as the
\* bearer credential and as the body of a refresh request.
NextTypes ==
    \/ Register("a@x", "ann", "Pw1")
    \/ Login("ann", "Pw1")
    \/ \E t \in AccessTokens \cup RefreshTokens : Refresh(t)
    \/ \E c \in Credentials, t \in AccessTokens \cup RefreshTokens : Logout(c, t)
    \/ \E c \in Credentials : DeleteMyAccount(c)
    \/ Tick

SpecTypes == Init /\ [][NextTypes]_vars

\* ================================================================ properties
\* The user a token was issued to is still there and active.
SubjectActive(token) == \E u \in users : u.id = token.sub /\ u.is_active

\* C1: once POST /auth/refresh has succeeded for a token T, T's row in the
\* store is revoked for as long as it is there, and a refresh presenting T
\* is answered 401, in every later state whatever happened in between; at
\* the step of the successful refresh T's row is there and revoked.
C1_RotatedTokenNeverAgain ==
    /\ [](\A t \in rotated :
            /\ \A r \in refresh_tokens : r.token = t => r.revoked
            /\ RefreshStatus(t) = 401)
    /\ [][\A t \in rotated' \ rotated :
            \E r \in refresh_tokens' : r.token = t /\ r.revoked]_vars

\* A rotated token whose row is still in the store, that still decodes and
\* whose user is still active: only the revoked flag keeps it out.
C1_Witness ==
    \E t \in rotated :
        /\ \E r \in refresh_tokens : r.token = t /\ r.revoked
        /\ verify_token(t, "refresh", now)
        /\ SubjectActive(t)

\* C2: the refresh token N a successful refresh returned has an unrevoked
\* row and a refresh presenting it succeeds, as long as no refresh has
\* succeeded for it, its session was not ended (log-out of N, password
\* change, deletion of the account), its user is active and its row is not
\* expired; once a refresh has succeeded for N every refresh presenting N
\* is answered 401.
C2_NewTokenGoodOnce ==
    \A g \in issued :
        g.by = "refresh" =>
            LET N == g.refresh_token
            IN /\ (/\ N \notin rotated
                   /\ N \notin ended
                   /\ SubjectActive(N)
                   /\ now < g.expires_at)
                  => /\ \E r \in refresh_tokens : r.token = N /\ r.revoked = FALSE
                     /\ RefreshStatus(N) = 200
               /\ N \in rotated => RefreshStatus(N) = 401

\* A token minted by a refresh has itself been rotated, and the one minted
\* in its place is good for its first use.
C2_Witness ==
    \E g, h \in issued :
        /\ g.by = "refresh" /\ g.refresh_token \in rotated
        /\ h.by = "refresh" /\ h.refresh_token \notin rotated
        /\ RefreshStatus(h.refresh_token) = 200

\* The two checks of POST /auth/refresh on the presented token.
HasActiveRow(token) == get_refresh_token(token) # {}
Decodes(token) == verify_token(token, "refresh", now)

\* C3: a refresh succeeds only for a token that has an unrevoked row and
\* decodes as a signed, unexpired refresh token: a token failing either
\* check is answered 401, a refresh request presenting it stores and issues
\* nothing, and every refresh that did succeed was for a token passing both.
C3_RefreshNeedsRowAndCodec ==
    /\ [](\A t \in PresentedTokens :
            ~(HasActiveRow(t) /\ Decodes(t)) => RefreshStatus(t) = 401)
    /\ [][~UNCHANGED <<refresh_tokens, issued, rotated, next_jti>>
            => \A t \in PresentedTokens :
                  ~(HasActiveRow(t) /\ Decodes(t)) => ~Refresh(t)]_vars
    /\ [][\A t \in rotated' \ rotated : HasActiveRow(t) /\ Decodes(t)]_vars
    /\ [][(\E g \in issued' \ issued : g.by = "refresh") => rotated' # rotated]_vars

\* A refresh has succeeded, and the store holds both a token that decodes
\* but whose row is revoked and a token with an unrevoked row that no
\* longer decodes.
C3_Witness ==
    /\ rotated # {}
    /\ \E t \in RefreshTokens : Decodes(t) /\ ~HasActiveRow(t)
    /\ \E t \in RefreshTokens : HasActiveRow(t) /\ ~Decodes(t)

\* C4: a refresh can succeed for a token only if the token's row has
\* revoked = false and the current time is earlier than the row's
\* expires_at.
C4_UsableOnlyBeforeExpiresAt ==
    \A t \in PresentedTokens :
        RefreshStatus(t) = 200 =>
            \E r \in refresh_tokens :
                r.token = t /\ r.revoked = FALSE /\ now < r.expires_at

\* C5: of two refresh requests presenting the same token and served one
\* store access at a time, at most one is answered 200 with a new pair.
C5_SingleUseUnderRace ==
    \A r1, r2 \in RequestIds :
        (/\ r1 # r2
         /\ inflight[r1].token = inflight[r2].token
         /\ inflight[r1].status = 200)
            => inflight[r2].status # 200

\* The refresh tokens of a user, and the user a reset token was sent to.
TokensOf(user_id) == {t \in RefreshTokens : t.sub = user_id}
ResetUser(token) ==
    {r.user_id : r \in get_password_reset_token(token, now)}

\* C6: a successful reset-password for user U leaves every refresh token
\* issued to U so far answered 401 by refresh, and a token whose session a
\* reset-password ended is answered 401 in every later state.
C6_ResetEndsAllSessions ==
    /\ [][\A t \in ResetTokenInputs, p \in Passwords :
            (ResetPasswordStatus(t) = 200 /\ ResetPassword(t, p))
                => \A U \in ResetUser(t) : \A T \in TokensOf(U) :
                      /\ T \in ended'
                      /\ RefreshStatus(T)' = 401]_vars
    /\ [](\A T \in ended : RefreshStatus(T) = 401)

\* A token ended by a reset-password that still decodes, whose row is
\* still there and whose user is active, next to a token issued to the
\* same user after the reset that refreshes.
C6_Witness ==
    \E T \in ended :
        /\ Decodes(T) /\ SubjectActive(T) /\ T \notin rotated
        /\ \E r \in refresh_tokens : r.token = T /\ r.revoked
        /\ \E N \in TokensOf(T.sub) : N \notin ended /\ RefreshStatus(N) = 200

\* The rows of the refresh tokens of the users other than user_id.
RowsOfOthers(rows, user_id) == {r \in rows : r.user_id # user_id}

\* C7: a change-password request of an authenticated active user with the
\* correct old password stores the hash of the new password for the caller,
\* leaves every row of the caller revoked and every row of another user as
\* it was; with a wrong old password it is answered 400 and changes neither
\* users nor tokens, so that a change-password step that changes a user or
\* a token row is one with the correct old password.
C7_ChangePasswordRevokesOwnTokens ==
    /\ [][~UNCHANGED <<users, refresh_tokens>> =>
          \A c \in Bearers :
            ActiveGuard(c) = 200 =>
              \A o \in Passwords, p \in Passwords :
                ChangePassword(c, o, p) =>
                  /\ verify_password(o, CurrentUser(c).hashed_password)
                  /\ \A u \in users' :
                        u.id = c.sub => verify_password(p, u.hashed_password)
                  /\ {u.id : u \in users'} = {u.id : u \in users}
                  /\ \A r \in refresh_tokens :
                        r.user_id = c.sub =>
                            [r EXCEPT !.revoked = TRUE] \in refresh_tokens'
                  /\ \A r \in refresh_tokens' : r.user_id = c.sub => r.revoked
                  /\ RowsOfOthers(refresh_tokens', c.sub) =
                     RowsOfOthers(refresh_tokens, c.sub)]_vars
    /\ [](\A c \in Bearers :
            ActiveGuard(c) = 200 =>
              \A o \in Passwords :
                ChangePasswordStatus(c, o) =
                    IF verify_password(o, CurrentUser(c).hashed_password)
                    THEN 200 ELSE 400)
    /\ [](\A c \in Bearers :
            ActiveGuard(c) = 200 =>
              LET caller == CurrentUser(c)
                  revoked == revoke_all_user_tokens(refresh_tokens, caller.id)
              IN /\ \A r \in revoked : r.user_id = caller.id => r.revoked
                 /\ RowsOfOthers(revoked, caller.id) =
                    RowsOfOthers(refresh_tokens, caller.id)
                 /\ \A p \in Passwords :
                      LET updated == update_user_password(users, caller.id, p)
                      IN /\ \A u \in updated :
                              u.id = caller.id =>
                                  verify_password(p, u.hashed_password)
                         /\ {u \in updated : u.id # caller.id} =
                            {u \in users : u.id # caller.id})

\* A user whose password was changed to one no sign-up form carries, whose
\* still decodable token was revoked by the change, while another user's
\* token refreshes; the changed user's access token meets a wrong old
\* password too.
C7_Witness ==
    \E T \in ended :
        /\ \E u \in users : u.id = T.sub /\ verify_password("Pw2", u.hashed_password)
        /\ \E r \in refresh_tokens : r.token = T /\ r.revoked
        /\ T \notin rotated /\ Decodes(T)
        /\ \E N \in RefreshTokens : N.sub # T.sub /\ RefreshStatus(N) = 200
        /\ \E c \in Bearers : c.sub = T.sub /\ ChangePasswordStatus(c, "Pw1") = 400

\* C8: a logout of an authenticated active user is answered 204 whatever
\* the state of the presented token's row; revoking leaves the token's row,
\* when there is one, revoked and every other row as it was, and changes
\* nothing when repeated or when the token has no unrevoked row; a step
\* that ends a session is such a logout, after which refresh answers the
\* token 401, as it does in every later state.
C8_LogoutRevokesIdempotently ==
    /\ [](\A c \in Bearers :
            ActiveGuard(c) = 200 =>
              \A t \in PresentedTokens : LogoutStatus(c, t) = 204)
    /\ [](\A t \in PresentedTokens :
            LET once == revoke_refresh_token(refresh_tokens, t)
            IN /\ \A r \in refresh_tokens :
                    r.token = t => [r EXCEPT !.revoked = TRUE] \in once
               /\ \A r \in once : r.token = t => r.revoked
               /\ {r \in once : r.token # t} = {r \in refresh_tokens : r.token # t}
               /\ revoke_refresh_token(once, t) = once
               /\ get_refresh_token(t) = {} => once = refresh_tokens)
    /\ [][ended' # ended =>
          \E c \in Bearers : \E t \in ended' \ ended :
            /\ ActiveGuard(c) = 200
            /\ Logout(c, t)
            /\ refresh_tokens' = revoke_refresh_token(refresh_tokens, t)
            /\ UNCHANGED <<users, email_tokens, reset_tokens>>
            /\ RefreshStatus(t)' = 401]_vars
    /\ [](\A T \in ended : RefreshStatus(T) = 401)

\* A logged-out token that still decodes, whose row is there and whose
\* user is there; a token already rotated was presented to a logout too.
C8_Witness ==
    /\ \E T \in ended :
        /\ T \notin rotated /\ Decodes(T) /\ SubjectActive(T)
        /\ \E r \in refresh_tokens : r.token = T /\ r.revoked
    /\ \E T \in ended : T \in rotated

\* The rows a verification token is accepted for.
LiveEmailRows(token) ==
    {r \in email_tokens : r.token = token /\ r.used = FALSE /\ r.expires_at > now}

\* C9: verify-email is answered 200 only for a token with an unused,
\* unexpired row, and 400 for every other token; a successful request
\* leaves the row's user verified and the row used; a token answered 400
\* is answered 400 in every later state, so a token is accepted at most
\* once; a request answered 400 leaves the users as they were.
C9_VerifyEmailSingleUse ==
    /\ [](\A t \in EmailTokenInputs :
            /\ VerifyEmailStatus(t) = 200 => LiveEmailRows(t) # {}
            /\ LiveEmailRows(t) = {} => VerifyEmailStatus(t) = 400)
    /\ [][\A t \in EmailTokenInputs :
            (VerifyEmailStatus(t) = 200 /\ VerifyEmail(t))
                => /\ \A r \in LiveEmailRows(t) :
                        /\ \E u \in users' : u.id = r.user_id /\ u.is_verified
                        /\ [r EXCEPT !.used = TRUE] \in email_tokens'
                   /\ \A r \in email_tokens' : r.token = t => r.used
                   /\ VerifyEmailStatus(t)' = 400]_vars
    /\ [][\A t \in EmailTokenInputs :
            VerifyEmailStatus(t) = 400 => VerifyEmailStatus(t)' = 400]_vars
    /\ [][\A t \in EmailTokenInputs :
            (VerifyEmailStatus(t) = 400 /\ VerifyEmail(t)) => UNCHANGED users]_vars

\* A verified user whose token's row is used, next to an unverified user
\* whose unused token has expired.
C9_Witness ==
    /\ \E r \in email_tokens :
          r.used /\ \E u \in users : u.id = r.user_id /\ u.is_verified
    /\ \E r \in email_tokens :
          /\ ~r.used /\ ~(r.expires_at > now)
          /\ \E u \in users : u.id = r.user_id /\ ~u.is_verified

\* The rows a reset token is accepted for.
LiveResetRows(token) ==
    {r \in reset_tokens : r.token = token /\ r.used = FALSE /\ r.expires_at > now}

\* What every successful reset-password leaves behind, for the row r of the
\* token, the new password p and the user v after the request: the hash
\* matches p, the row is used and the token is answered 400 from then on.
ResetLeaves(t, p, r, v) ==
    /\ verify_password(p, v.hashed_password)
    /\ [r EXCEPT !.used = TRUE] \in reset_tokens'
    /\ \A r2 \in reset_tokens' : r2.token = t => r2.used
    /\ ResetPasswordStatus(t)' = 400

\* Around the successful request: it is accepted only for a token with an
\* unused, unexpired row; a token answered 400 stays answered 400; and a
\* request answered 400 leaves the users as they were.
ResetOnlyOnce ==
    /\ [](\A t \in ResetTokenInputs :
            /\ ResetPasswordStatus(t) = 200 => LiveResetRows(t) # {}
            /\ LiveResetRows(t) = {} => ResetPasswordStatus(t) = 400)
    /\ [][\A t \in ResetTokenInputs :
            ResetPasswordStatus(t) = 400 => ResetPasswordStatus(t)' = 400]_vars
    /\ [][\A t \in ResetTokenInputs :
            ResetPasswordStatus(t) = 400 =>
              \A p \in Passwords : ResetPassword(t, p) => UNCHANGED users]_vars

\* C10, as stated: reset-password succeeds only for an unused, unexpired
\* token; after a successful request the hash matches the new password and
\* no longer the old one, a login with the old password is answered 401
\* and one with the new password 200, the token is used, and a second
\* request with it is answered 400 and leaves the password as it is.
C10_ResetPasswordAsStated ==
    /\ ResetOnlyOnce
    /\ [][\A t \in ResetTokenInputs :
            ResetPasswordStatus(t) = 200 =>
              \A p \in Passwords :
                ResetPassword(t, p) =>
                  \A r \in LiveResetRows(t) : \A u \in users :
                    u.id = r.user_id =>
                      \E v \in users' :
                        /\ v.id = u.id
                        /\ ResetLeaves(t, p, r, v)
                        /\ \A o \in Passwords :
                             verify_password(o, u.hashed_password) =>
                                /\ ~verify_password(o, v.hashed_password)
                                /\ LoginStatus({v}, o) = 401
                        /\ LoginStatus({v}, p) = 200]_vars

\* C10, amended: as above, but the hash stops matching the old password
\* only when the new one differs from it (every password other than the
\* new one is answered 401 by login), and a login with the new password is
\* answered 200 when the user is active and 403 when the user is not.
C10_ResetPasswordSingleUse ==
    /\ ResetOnlyOnce
    /\ [][\A t \in ResetTokenInputs :
            ResetPasswordStatus(t) = 200 =>
              \A p \in Passwords :
                ResetPassword(t, p) =>
                  \A r \in LiveResetRows(t) : \A u \in users :
                    u.id = r.user_id =>
                      \E v \in users' :
                        /\ v.id = u.id
                        /\ ResetLeaves(t, p, r, v)
                        /\ \A o \in Passwords :
                             o # p =>
                                /\ ~verify_password(o, v.hashed_password)
                                /\ LoginStatus({v}, o) = 401
                        /\ LoginStatus({[v EXCEPT !.is_active = TRUE]}, p) = 200
                        /\ LoginStatus({[v EXCEPT !.is_active = FALSE]}, p) = 403]_vars

\* The user's password was reset to one no sign-up form carries: the row of
\* the token is used, the token is answered 400, the old password is
\* answered 401 by login and the new one 200.
C10_Witness ==
    \E r \in reset_tokens : \E u \in users :
        /\ r.used /\ u.id = r.user_id
        /\ ResetPasswordStatus(r.token) = 400
        /\ verify_password("Pw2", u.hashed_password)
        /\ LoginStatus({u}, "Pw1") = 401
        /\ LoginStatus({u}, "Pw2") = 200

\* C11: login answers an identifier that matches no user and an identifier
\* that matches a user whose password is wrong with the same response (401,
\* the same detail, the same headers), whether the matched user is active or
\* inactive: the password is tested before the active flag.
C11_LoginFailureIndistinguishable ==
    \A i, j \in Identifiers : \A p, q \in Passwords :
        LET unknown == get_user_by_username_or_email(i)
            known == get_user_by_username_or_email(j)
        IN (/\ unknown = {}
            /\ known # {}
            /\ \E u \in known : ~verify_password(q, u.hashed_password))
           => /\ LoginResponse(known, q) = LoginResponse(unknown, p)
              /\ LoginResponse(known, q).status = 401
              /\ LoginStatus(known, q) = LoginResponse(known, q).status
              /\ LoginStatus(unknown, p) = LoginResponse(unknown, p).status

\* An inactive and an active user exist, each asked with a wrong password,
\* next to an identifier that matches nobody.
C11_Witness ==
    /\ \E u \in users : ~u.is_active /\ ~verify_password("Pw2", u.hashed_password)
                          /\ LoginResponse({u}, "Pw2").status = 401
    /\ \E v \in users : v.is_active /\ ~verify_password("Pw2", v.hashed_password)
                          /\ LoginResponse({v}, "Pw2").status = 401
    /\ get_user_by_username_or_email("nobody") = {}

\* The Token responses a step hands out for a login.
LoginGrants == {g \in issued' \ issued : g.by = "login"}

\* C12: a login with the correct password of an active user returns one
\* access and one refresh token whose subject is that user and stores exactly
\* one new refresh-token row for that user, not revoked; with the correct
\* password of an inactive user it is answered 403 and stores nothing; a
\* refresh-token row that appears without a rotation comes from a login that
\* was answered 200, so a failed login stores no token.
C12_LoginIssuesOnePair ==
    /\ [](\A u \in users : \A p \in Passwords :
            verify_password(p, u.hashed_password)
            => /\ LoginStatus({u}, p) = (IF u.is_active THEN 200 ELSE 403)
               /\ LoginResponse({u}, p).status = LoginStatus({u}, p))
    /\ [][LoginGrants # {} =>
            \E i \in Identifiers, p \in Passwords :
            \E user \in get_user_by_username_or_email(i) :
            \E g \in LoginGrants :
            \E row \in refresh_tokens' :
                /\ LoginStatus({user}, p) = 200
                /\ user.is_active
                /\ verify_password(p, user.hashed_password)
                /\ issued' = issued \cup {g}
                /\ g.access_token.type = "access"
                /\ g.access_token.sub = user.id
                /\ g.refresh_token.type = "refresh"
                /\ g.refresh_token.sub = user.id
                /\ row \notin refresh_tokens
                /\ refresh_tokens' = refresh_tokens \cup {row}
                /\ row.token = g.refresh_token
                /\ row.user_id = user.id
                /\ row.revoked = FALSE
                /\ UNCHANGED <<users, email_tokens, reset_tokens>>]_vars
    /\ [][(refresh_tokens' \ refresh_tokens # {} /\ rotated' = rotated)
           => LoginGrants # {}]_vars

\* Both outcomes have happened: an active user holds a login's token pair
\* with its row, and an inactive user with a known password holds none.
C12_Witness ==
    /\ \E g \in issued : \E u \in users :
          /\ g.by = "login" /\ g.refresh_token.sub = u.id /\ u.is_active
          /\ \E row \in refresh_tokens : row.token = g.refresh_token /\ ~row.revoked
    /\ \E u \in users :
          /\ ~u.is_active
          /\ LoginStatus({u}, "Pw1") = 403
          /\ \A row \in refresh_tokens : row.user_id # u.id

\* The reset-token rows a step adds in the unused state.
NewResetRows == {r \in reset_tokens' \ reset_tokens : r.used = FALSE}

\* C13: forgot-password answers with the same status and body whether or not
\* the email belongs to a user; a step stores a new unused reset-token row only
\* for a user that an email of the request resolves to, exactly one row, and
\* changes nothing else that is stored; for an email that belongs to a user
\* the request can store such a row.
C13_ForgotPasswordUniform ==
    /\ [](\A e1, e2 \in Emails :
            ForgotPasswordResponse(get_user_by_email(e1))
            = ForgotPasswordResponse(get_user_by_email(e2)))
    /\ [](\A e \in Emails :
            (get_user_by_email(e) # {} /\ next_reset <= MaxResetTokens)
            => ENABLED (ForgotPassword(e) /\ reset_tokens' # reset_tokens))
    /\ [][NewResetRows # {} =>
            \E e \in Emails : \E user \in get_user_by_email(e) :
            \E row \in NewResetRows :
                /\ ForgotPassword(e)
                /\ reset_tokens' = reset_tokens \cup {row}
                /\ row.user_id = user.id
                /\ \A old \in reset_tokens : old.token # row.token
                /\ UNCHANGED <<users, refresh_tokens, email_tokens>>]_vars

\* A reset token was stored for the user of one email while another email
\* belongs to nobody.
C13_Witness ==
    /\ \E e \in Emails : \E user \in get_user_by_email(e) :
          \E row \in reset_tokens : row.user_id = user.id /\ ~row.used
    /\ \E e \in Emails : get_user_by_email(e) = {}
    /\ ForgotPasswordResponse(get_user_by_email("a@x"))
       = ForgotPasswordResponse(get_user_by_email("b@x"))

\* C14: there is no account lockout. A login that is not answered 200 changes
\* nothing that is stored; and whatever happened before, any number of failed
\* logins included, a user who is active is answered 200 for the password the
\* stored hash was made from, and that login hands out a token pair.
C14_NoLockout ==
    /\ [][\A i \in Identifiers, p \in Passwords :
            (/\ LoginStatus(get_user_by_username_or_email(i), p) # 200
             /\ Login(i, p))
            => UNCHANGED <<db, counters, history>>]_vars
    /\ [](\A u \in users :
            /\ u.is_active
            /\ \A p \in Passwords :
                 verify_password(p, u.hashed_password)
                 => /\ LoginStatus({u}, p) = 200
                    /\ next_jti <= MaxRefresh
                       => ENABLED (Login(u.username, p) /\ LoginGrants # {}))

\* A user for whom a wrong password is answered 401 in this very state has
\* logged in before and can log in again.
C14_Witness ==
    \E u \in users :
        /\ \E p \in Passwords : LoginStatus({u}, p) = 401
        /\ \E p \in Passwords : LoginStatus({u}, p) = 200
        /\ \E g \in issued : g.by = "login" /\ g.refresh_token.sub = u.id
        /\ next_jti <= MaxRefresh
        /\ now > 0

\* C16: whatever register and profile-update requests are served, one after
\* the other or with the check of one between the check and the commit of
\* another, no two users have the same email and no two the same username.
C16_EmailAndUsernameUnique ==
    \A u, v \in users :
        u # v => /\ u.id # v.id
                 /\ u.email # v.email
                 /\ u.username # v.username

\* Two users exist and a commit was refused by the store after its checks
\* had passed: the request had raced with another one.
C16_Witness ==
    /\ Cardinality(users) = 2
    /\ \E r \in RequestIds : inflight[r].status = 500
    /\ \E r \in RequestIds : inflight[r].op = "profile" /\ inflight[r].status = 200

\* The users a step adds under an id that was not in the table.
NewUsers == {u \in users' : \A old \in users : old.id # u.id}

\* C15: register with an email or a username that a user already holds is
\* answered 400 and creates neither a user nor a token; a register that
\* creates a user creates exactly one, with role user, active and not
\* verified, under an email and a username nobody held, and exactly one
\* unused email-verification token for that user.
C15_RegisterCreatesOneUser ==
    /\ [](\A e \in Emails, n \in Usernames :
            (get_user_by_email(e) # {} \/ get_user_by_username(n) # {})
            <=> RegisterStatus(e, n) = 400)
    /\ [][\A e \in Emails, n \in Usernames :
            ((get_user_by_email(e) # {} \/ get_user_by_username(n) # {})
             /\ Register(e, n, "Pw1"))
            => UNCHANGED <<db, counters>>]_vars
    /\ [][NewUsers # {} =>
            \E u \in NewUsers : \E row \in email_tokens' :
                /\ users' = users \cup {u}
                /\ u.role = "user"
                /\ u.is_active
                /\ ~u.is_verified
                /\ get_user_by_email(u.email) = {}
                /\ get_user_by_username(u.username) = {}
                /\ row \notin email_tokens
                /\ email_tokens' = email_tokens \cup {row}
                /\ \A old \in email_tokens : old.token # row.token
                /\ row.user_id = u.id
                /\ row.used = FALSE
                /\ UNCHANGED <<refresh_tokens, reset_tokens>>]_vars

\* A user was created with its verification token, and a sign-up with a
\* free email and that user's username is answered 400, as is one with
\* that user's email and a free username.
C15_Witness ==
    \E u \in users :
        /\ \E row \in email_tokens : row.user_id = u.id /\ ~row.used
        /\ u.role = "user" /\ u.is_active /\ ~u.is_verified
        /\ \E e \in Emails : get_user_by_email(e) = {}
                             /\ RegisterStatus(e, u.username) = 400
        /\ \E n \in Usernames : get_user_by_username(n) = {}
                                /\ RegisterStatus(u.email, n) = 400

\* C17: the guards are layered, authenticated, then active, then verified,
\* then admin: a request passes the admin guard only if its bearer token
\* resolves to an existing user who is active, is verified and has the role
\* admin, so that whoever passes the admin guard passes the verified guard.
C17_AdminGuardLayered ==
    \A c \in Bearers :
        AdminGuard(c) = 200
        => /\ VerifiedGuard(c) = 200
           /\ \E u \in get_current_user(c) :
                 u.is_active /\ u.is_verified /\ u.role = "admin"

\* C19: the todo of a user A is reported 404, never 403, to every other
\* user B (one who passes the active-user guard) who asks for it, updates
\* it or deletes it by its id, and such a request leaves the todo as it was:
\* a todo changes or goes only by an update, a deletion or the account
\* deletion of its owner.
C19_ForeignTodoIsNotFound ==
    /\ [](\A t \in todos : \A c \in SessionBearers :
            c.sub # t.owner_id
            => /\ TodoStatus(c, t.id, 200) = 404
               /\ TodoStatus(c, t.id, 204) = 404
               /\ get_todo(t.id, c.sub) = {}
               /\ update_todo(t.id, CHOOSE d \in TodoUpdates : TRUE, c.sub) = todos
               /\ delete_todo(t.id, c.sub) = todos)
    /\ [][\A t \in todos \ todos' :
            \E c \in SessionBearers :
                /\ c.sub = t.owner_id
                /\ \/ \E d \in TodoUpdates : UpdateTodo(c, t.id, d)
                   \/ DeleteTodo(c, t.id)
                   \/ DeleteMyAccount(c)]_vars

\* Two users, one with a todo that was updated, which the other one is
\* answered 404 for.
C19_Witness ==
    \E t \in todos : \E c \in SessionBearers :
        /\ c.sub # t.owner_id
        /\ ActiveGuard(c) = 200
        /\ TodoStatus(c, t.id, 200) = 404
        /\ t.title = "call home"
        /\ \E a \in SessionBearers : TodoStatus(a, t.id, 200) = 200

\* The todos a step adds under an id that was not in the table.
NewTodos == {t \in todos' : \A old \in todos : old.id # t.id}

\* C20: every todo has exactly one owner, an existing user; the owner is set
\* at creation to the caller of the creating request and no later step
\* changes it; the list endpoint returns only todos of the caller that match
\* every filter the request carries (status, priority, due-before).
C20_OwnerFixedAndListScoped ==
    /\ [](\A t \in todos :
            /\ Cardinality(get_user_by_id(t.owner_id)) = 1
            /\ \A other \in todos : other.id = t.id => other = t)
    /\ [][NewTodos # {} =>
            \E t \in NewTodos : \E c \in SessionBearers : \E d \in TodoCreates :
                /\ CreateTodo(c, d)
                /\ todos' = todos \cup {t}
                /\ t.owner_id = c.sub
                /\ t.owner_id = CurrentUser(c).id]_vars
    /\ [][\A t \in todos : \A later \in todos' :
            later.id = t.id => later.owner_id = t.owner_id]_vars
    /\ [](\A c \in SessionBearers : \A f \in TodoFilters :
            \A t \in list_todos(c.sub, f[1], f[2], f[3]) :
                /\ t \in todos
                /\ t.owner_id = c.sub
                /\ f[1] # NoFilter => t.status = f[1]
                /\ f[2] # NoFilter => t.priority = f[2]
                /\ f[3] # NoDate => (t.due_date # NoDate /\ t.due_date <= f[3]))

\* Both users own a todo, one of them updated after its creation, and a
\* filtered list of one user is not empty while the other user's todo
\* matches the same filter.
C20_Witness ==
    /\ \E t1, t2 \in todos : t1.owner_id # t2.owner_id /\ t1.title = "call home"
    /\ \E c \in SessionBearers : \E f \in TodoFilters :
          /\ f[1] # NoFilter
          /\ list_todos(c.sub, f[1], f[2], f[3]) # {}
          /\ \E t \in todos : t.owner_id # c.sub /\ t.status = f[1]

\* A credential that does not decode as an access token, or whose subject
\* is no user; and one that decodes to a user whose active flag is off.
Unauthenticated(c) ==
    \/ ~verify_token(c, "access", now)
    \/ get_user_by_id(c.sub) = {}

Deactivated(c) ==
    /\ ~Unauthenticated(c)
    /\ \E u \in get_user_by_id(c.sub) : ~u.is_active

\* The status of every endpoint behind get_current_active_user is s.
GuardedEndpointsAnswer(c, s) ==
    /\ ActiveGuard(c) = s
    /\ \A t \in PresentedTokens : LogoutStatus(c, t) = s
    /\ \A o \in Passwords : ChangePasswordStatus(c, o) = s
    /\ \A f \in ProfileForms : UpdateMyProfileStatus(c, f[1], f[2]) = s
    /\ \A i \in TodoIds : TodoStatus(c, i, 200) = s /\ TodoStatus(c, i, 204) = s
    /\ \A u \in UserIds : AdminStatus(c, u, 200) = s

\* C18: on the endpoints behind the active-user guard a bearer token that
\* does not decode as an access token, or whose subject is not an existing
\* user, is answered 401, and a valid access token of a user whose active
\* flag is off is answered 403; the handler does not run: an account goes,
\* and an active flag changes, only by a request whose credential is a
\* valid access token of an existing active user.
C18_GuardRejectsBeforeHandler ==
    /\ [](\A c \in Credentials :
            /\ Unauthenticated(c) => GuardedEndpointsAnswer(c, 401)
            /\ Deactivated(c) => GuardedEndpointsAnswer(c, 403))
    /\ [][users' # users => \A c \in Credentials :
            ((Unauthenticated(c) \/ Deactivated(c))
             /\ (DeleteMyAccount(c)
                 \/ \E u \in UserIds, a \in BOOLEAN : AdminUpdateStatus(c, u, a)))
            => UNCHANGED <<db, counters, history>>]_vars
    /\ [][users' # users => \A u \in users :
            (\A v \in users' : v.id = u.id => v.is_active # u.is_active)
            => \E c \in Credentials :
                  /\ ~Unauthenticated(c)
                  /\ ~Deactivated(c)
                  /\ \/ c.sub = u.id /\ DeleteMyAccount(c)
                     \/ \E a \in BOOLEAN : AdminUpdateStatus(c, u.id, a)]_vars

\* At one moment a client holds an expired access token, another a valid
\* access token of a deleted account, a third a valid access token of a
\* deactivated user, and a refresh token is offered as the bearer.
C18_Witness ==
    /\ \E c \in AccessTokens : ~verify_token(c, "access", now)
    /\ \E c \in AccessTokens : verify_token(c, "access", now)
                                /\ get_user_by_id(c.sub) = {}
                                /\ ActiveGuard(c) = 401
    /\ \E c \in AccessTokens : Deactivated(c) /\ ActiveGuard(c) = 403
    /\ \E c \in RefreshTokens : jwt_decode(c, now) /\ ActiveGuard(c) = 401

\* C21: a step that adds a harvest-history row or changes a user's
\* total_completed_count is a harvest by one user U who had n >= 1 completed
\* todos: it deletes exactly U's completed todos, adds n to U's counter and
\* adds one row (U, n); U's other todos, the other users' todos and the other
\* users' rows stay as they were. With no completed todo nothing is written.
C21_HarvestFrame ==
    [][(\/ harvest_history' # harvest_history
        \/ \E u \in users : \E v \in users' :
              v.id = u.id /\ v.total_completed_count # u.total_completed_count) =>
        \E u \in users :
           LET done == {t \in todos : t.owner_id = u.id /\ t.status = "completed"}
               n == Cardinality(done)
           IN  /\ n >= 1
               /\ todos' = todos \ done
               /\ users' = (users \ {u}) \cup
                      {[u EXCEPT !.total_completed_count = @ + n]}
               /\ \E h \in harvest_history' :
                      /\ h \notin harvest_history
                      /\ harvest_history' = harvest_history \cup {h}
                      /\ h.user_id = u.id
                      /\ h.count = n]_vars

\* A user has harvested while another user's completed todo stays in the table.
C21_Witness ==
    \E h \in harvest_history : \E u \in users : \E t \in todos :
        /\ u.id = h.user_id
        /\ h.count >= 1
        /\ u.total_completed_count = h.count
        /\ t.owner_id # u.id
        /\ t.status = "completed"

\* C22: no step takes the total_completed_count of a user to a smaller value
\* than it had before the step.
C22_CounterNeverDecreases ==
    [][\A u \in users : \A v \in users' :
          v.id = u.id => v.total_completed_count >= u.total_completed_count]_vars

C24_AdminCannotTargetSelf ==
    /\ [](\A c \in SessionBearers :
            AdminGuard(c) = 200 =>
                /\ AdminStatus(c, c.sub, 200) = 400
                /\ AdminStatus(c, c.sub, 204) = 400)
    /\ [][\A u \in users :
            (/\ users' # users
             /\ u.role = "admin" /\ u.is_active
             /\ \A w \in users \ {u} : ~(w.role = "admin" /\ w.is_active))
            => \E v \in users' :
                  v.id = u.id /\ v.role = u.role /\ v.is_active = u.is_active]_vars

\* The only active admin has deactivated the other user and is answered 400
\* on its own id.
C24_Witness ==
    \E c \in SessionBearers : \E w \in users :
        /\ AdminGuard(c) = 200
        /\ w.id # c.sub
        /\ ~w.is_active
        /\ AdminStatus(c, c.sub, 200) = 400

\* C25: a new user has role user; and a step that changes the role or the
\* is_active flag of a user is an admin request of another user, who is an
\* active admin when the step is taken, or is the operator's script make_admin,
\* which is not a request and sets the role of the user it names to admin.
C25_RoleChangesAdminOnly ==
    [][users' # users =>
        /\ \A v \in users' : get_user_by_id(v.id) = {} => v.role = "user"
        /\ \A u \in users : \A v \in users' :
              (v.id = u.id /\ (v.role # u.role \/ v.is_active # u.is_active))
              => \/ \E a \in users :
                       a.id # u.id /\ a.role = "admin" /\ a.is_active
                 \/ /\ u.username \in Operators
                    /\ v = [u EXCEPT !.role = "admin"]]_vars

\* An admin has promoted the other user, who has demoted the admin.
C25_Witness ==
    \E u \in users : \E v \in users :
        /\ u.username \in Operators /\ u.role = "user"
        /\ v.username \notin Operators /\ v.role = "admin"

\* C26: a row that the sweep deletes when it runs now (expires_at < now)
\* belongs to a token that refresh, verify-email or reset-password would not
\* accept now.
C26_SweepRemovesOnlyUnusable ==
    /\ \A r \in refresh_tokens : r.expires_at < now => RefreshStatus(r.token) # 200
    /\ \A r \in email_tokens : r.expires_at < now => VerifyEmailStatus(r.token) # 200
    /\ \A r \in reset_tokens : r.expires_at < now => ResetPasswordStatus(r.token) # 200

\* C27: a step in which a token row of any kind disappears keeps in each of
\* the three tables exactly the rows with expires_at >= now, unchanged, removes
\* as many rows as cleanup_expired_tokens returns, leaves the other tables as
\* they were, and leaves nothing for a second sweep at the same time to
\* delete or to count.
C27_SweepExact ==
    [][(\/ \E r \in refresh_tokens : \A q \in refresh_tokens' : q.token # r.token
        \/ \E r \in email_tokens : \A q \in email_tokens' : q.token # r.token
        \/ \E r \in reset_tokens : \A q \in reset_tokens' : q.token # r.token) =>
        /\ refresh_tokens' = {r \in refresh_tokens : r.expires_at >= now}
        /\ email_tokens' = {r \in email_tokens : r.expires_at >= now}
        /\ reset_tokens' = {r \in reset_tokens : r.expires_at >= now}
        /\ cleanup_count(now) =
              (Cardinality(refresh_tokens) - Cardinality(refresh_tokens'))
              + (Cardinality(email_tokens) - Cardinality(email_tokens'))
              + (Cardinality(reset_tokens) - Cardinality(reset_tokens'))
        /\ cleanup_count(now) >= 1
        /\ cleanup_count(now)' = 0
        /\ cleanup_expired_tokens(refresh_tokens', now') = refresh_tokens'
        /\ cleanup_expired_tokens(email_tokens', now') = email_tokens'
        /\ cleanup_expired_tokens(reset_tokens', now') = reset_tokens'
        /\ UNCHANGED <<now, users, todos, harvest_history>>]_vars

\* After a sweep: a row that expires at this very moment is still there, the
\* rows that expired earlier are gone.
C27_Witness ==
    /\ next_jti > 1 + Cardinality(refresh_tokens)
    /\ \E r \in refresh_tokens : r.expires_at = now
    /\ email_tokens = {}
    /\ next_email > 1

C29_PastDueDateRejected ==
    [][\A t \in NewTodos : t.due_date = NoDate \/ t.due_date >= now]_vars

\* C30: a refresh token sent as the bearer credential identifies nobody and
\* is answered 401 by every guard; an access token sent to the refresh
\* endpoint is answered 401 and no pair is issued for it.
C30_TokenTypesNotInterchangeable ==
    /\ [](\A t \in RefreshTokens :
            /\ get_current_user(t) = {}
            /\ ActiveGuard(t) = 401
            /\ VerifiedGuard(t) = 401
            /\ AdminGuard(t) = 401)
    /\ [](\A t \in AccessTokens : RefreshStatus(t) = 401)
    /\ [][issued' # issued =>
            \A g \in issued' \ issued : g.by = "refresh" =>
                \E t \in RefreshTokens : RefreshStatus(t) = 200]_vars

\* A pair of tokens each of which is accepted where it belongs and answered
\* 401 where the other belongs.
C30_Witness ==
    \E g \in issued :
        /\ ActiveGuard(g.access_token) = 200
        /\ RefreshStatus(g.refresh_token) = 200
        /\ ActiveGuard(g.refresh_token) = 401
        /\ RefreshStatus(g.access_token) = 401

\* C31: a harvest-history row that is in the table before a step is in the
\* table after it, with the same user and the same count, unless the step
\* deletes the user the row belongs to.
C31_HarvestHistoryAppendOnly ==
    [][harvest_history' # harvest_history =>
        \A h \in harvest_history :
            \/ h \in harvest_history'
            \/ /\ get_user_by_id(h.user_id) # {}
               /\ \A u \in users' : u.id # h.user_id
               /\ \A g \in harvest_history' : g.user_id # h.user_id]_vars

\* Two harvests of one user, both on record.
C31_Witness ==
    \E h \in harvest_history : \E g \in harvest_history :
        h.id # g.id /\ h.user_id = g.user_id

\* C32: a reset-password request that has changed the password ends, with
\* whatever status, in a state in which every refresh-token row of the user
\* is revoked.
C32_ResetAlwaysRevokes ==
    [][\A r \in RequestIds :
          (inflight[r].op = "reset" /\ inflight[r].pc \in {"mark", "revoke"}
           /\ inflight'[r].pc = "done")
          => \A row \in refresh_tokens' :
                row.user_id = inflight[r].token.user_id => row.revoked]_vars

\* C35: of two reset-password requests that present the same token and are
\* served one store call at a time, at most one gets past the lookup of the
\* token and writes its password.
C35_SingleUseUnderRace ==
    \A r1, r2 \in RequestIds :
        (/\ r1 # r2
         /\ inflight[r1].op = "reset" /\ inflight[r2].op = "reset"
         /\ inflight[r1].pc = "done" /\ inflight[r1].status = 200
         /\ inflight[r2].pc = "done"
         /\ inflight[r2].token.token = inflight[r1].token.token)
            => inflight[r2].status # 200

\* C33: when a step marks an email-verification token used, the user of the
\* token is verified already; and a verify-email request that ends with 404
\* writes nothing in its last step and leaves no row of its token with the
\* used flag set by it.
C33_VerifiedBeforeUsed ==
    [][(\A row \in email_tokens : \A new \in email_tokens' :
            (new.token = row.token /\ ~row.used /\ new.used)
            => \E u \in get_user_by_id(row.user_id) : u.is_verified)
       /\ (\A r \in RequestIds :
            (inflight[r].pc # "done" /\ inflight'[r].pc = "done"
             /\ inflight'[r].op = "verify" /\ inflight'[r].status = 404)
            => (UNCHANGED db
                /\ \A used \in email_tokens :
                      used.token = inflight'[r].token.token => ~used.used))]_vars

\* One verify-email request was answered 200 and its token is used, another
\* was answered 404 because the account was deleted under it.
C33_Witness ==
    /\ \E r \in RequestIds :
          inflight[r].op = "verify" /\ inflight[r].status = 404
    /\ \E r \in RequestIds : \E row \in email_tokens :
          /\ inflight[r].op = "verify" /\ inflight[r].status = 200
          /\ row.token = inflight[r].token.token /\ row.used

\* C34: whenever no harvest request is between its guard and its commit, the
\* total_completed_count of every user equals the sum of the counts of the
\* user's harvest-history rows.
C34_CounterMatchesHistory ==
    (\A r \in RequestIds : inflight[r].pc # "commit")
    => \A u \in users :
          u.total_completed_count =
              func_sum({h \in harvest_history : h.user_id = u.id})

\* C36: a refresh request writes nothing to the store before the revocation
\* of its token, so a request answered 401 has changed nothing; and an
\* unrevoked, unexpired refresh token of an existing active user is accepted,
\* whatever answers it was given while the user was inactive.
C36_FailedRefreshWritesNothing ==
    /\ [][\A r \in RequestIds :
            (inflight[r].op = "refresh" /\ inflight[r].pc \in {"lookup", "verify"}
             /\ inflight'[r] # inflight[r]) => UNCHANGED db]_vars
    /\ [](\A r \in RequestIds :
            (/\ inflight[r].op = "refresh" /\ inflight[r].status = 401
             /\ \E row \in get_refresh_token(inflight[r].token) :
                   row.user_id = inflight[r].token.sub
             /\ verify_token(inflight[r].token, "refresh", now)
             /\ \E u \in get_user_by_id(inflight[r].token.sub) : u.is_active)
            => RefreshStatus(inflight[r].token) = 200)

\* A refresh token that was refused while its user was inactive is accepted
\* by a later request, after the user was reactivated: the later request has
\* passed the checks and is about to revoke the token.
C36_Witness ==
    \E r1, r2 \in RequestIds :
        /\ inflight[r1].op = "refresh" /\ inflight[r1].pc = "done"
        /\ inflight[r1].status = 401
        /\ inflight[r1].token \in RefreshTokens
        /\ inflight[r2].op = "refresh" /\ inflight[r2].pc = "revoke"
        /\ inflight[r2].token = inflight[r1].token

\* C37: a log-out answered 204 for the bearer of user A leaves every
\* refresh-token row of another user as it was.
C37_LogoutOnlyOwnTokens ==
    [][\A c \in Bearers, t \in PresentedTokens :
          (LogoutStatus(c, t) = 204 /\ Logout(c, t))
          => \A row \in refresh_tokens :
                row.user_id # c.sub => row \in refresh_tokens']_vars

\* C38: no user's username equals the email of a different user, and every
\* identifier a log-in can present matches at most one user.
C38_IdentifiersDisjoint ==
    /\ \A u \in users : \A v \in users : u.id # v.id => u.username # v.email
    /\ \A i \in Emails \cup {"ann"} :
          Cardinality(get_user_by_username_or_email(i)) <= 1

\* C39: no step takes the set of active admins from non-empty to empty.
C39_ActiveAdminRemains ==
    [][(\E u \in users : u.role = "admin" /\ u.is_active)
       => (\E u \in users' : u.role = "admin" /\ u.is_active)]_vars

\* C40: once the password of a user is the new one and no refresh request
\* is in flight, the user has no unrevoked refresh token; every token of the
\* user descends from a log-in with the old password.
C40_NoSessionSurvivesPasswordChange ==
    (\A r \in RequestIds : inflight[r].pc \in {"idle", "done"})
    => \A u \in users :
          verify_password("Pw2", u.hashed_password)
          => \A row \in refresh_tokens : row.user_id = u.id => row.revoked

====
